---- MODULE Spec2Model ----
(***************************************************************************)
(* Resume-match engine: the parallel bulk orchestrator                     *)
(* (analyze_bulk_resumes_parallel), its per-resume task (process_resume),  *)
(* the retried upload (upload_file_with_retry) and the per-user JSON blob  *)
(* store (db_manager) they write to.                                       *)
(***************************************************************************)
EXTENDS Integers, Sequences, FiniteSets, TLC

(***************************************************************************)
(* Bounds of the model                                                     *)
(***************************************************************************)
\* longest resume path sequence handed to the orchestrator
MaxResumes == 2
\* largest max_workers argument tried
MaxWorkersArg == 2

(***************************************************************************)
(* Program constants                                                       *)
(***************************************************************************)
\* stop_after_attempt(3)
MaxAttempts == 3

NoneVal == "None"

\* `if x:` on an optional string
Truthy(s) == s \notin {NoneVal, ""}

(***************************************************************************)
(* Paths: a file name is its stem and its suffix, as pathlib splits it     *)
(***************************************************************************)
Lower(s) ==
  CASE s = ".PDF" -> ".pdf"
    [] s = ".DOCX" -> ".docx"
    [] s = ".TXT" -> ".txt"
    [] OTHER -> s

Path(stem, suffix) == [stem |-> stem, suffix |-> suffix]

ResumePaths == {Path("a", ".pdf"), Path("b", ".DOCX"), Path("c", ".txt")}
JdPaths == {Path("jd", ".pdf"), Path("jd", ".txt")}

\* _validate_file_type: TRUE when ValueError("Unsupported file type") is not raised
SupportedFileType(path) == Lower(path.suffix) \in {".pdf", ".docx"}

\* _get_mime_type and the docx branch of process_resume
MimeType(path) == IF Lower(path.suffix) = ".pdf" THEN "application/pdf" ELSE "text/plain"

(***************************************************************************)
(* Strings.  A string is a record: JSON texts carry their members in       *)
(* order (duplicates possible), other texts their pieces.                  *)
(***************************************************************************)
Plain(pieces) == [kind |-> "plain", body |-> pieces, members |-> <<>>]
ObjectText(members) == [kind |-> "object", body |-> <<>>, members |-> members]
ArrayText == [kind |-> "array", body |-> <<>>, members |-> <<>>]

Member(k, v) == [k |-> k, v |-> v]

\* f"Error: {str(e)}"
ErrorString(msg) == Plain(<<"Error: ", msg>>)
\* f"Unexpected error: {str(e)}"
\* the tag of process_resume's own handler
UnexpectedAsError(msg) == Plain(<<"Error: ", msg>>)

UnexpectedString(msg) == Plain(<<"Unexpected error: ", msg>>)

StartsWith(text, prefix) ==
  /\ text.kind = "plain"
  /\ Len(text.body) > 0
  /\ text.body[1] = prefix

(***************************************************************************)
(* json.loads / json.dumps on those strings.  A parsed object is the       *)
(* sequence of its members in insertion order, keys pairwise distinct.     *)
(***************************************************************************)
HasKey(d, k) == \E n \in 1..Len(d) : d[n].k = k

Get(d, k) == IF HasKey(d, k) THEN (CHOOSE m \in {d[n] : n \in 1..Len(d)} : m.k = k).v ELSE "null"

Keys(d) == {d[n].k : n \in 1..Len(d)}

\* d[k] = v on a dict: a present key keeps its place, a new key is appended
SetItem(d, k, v) ==
  IF HasKey(d, k)
  THEN [n \in 1..Len(d) |-> IF d[n].k = k THEN Member(k, v) ELSE d[n]]
  ELSE Append(d, Member(k, v))

RECURSIVE BuildDict(_, _)
BuildDict(members, acc) ==
  IF members = <<>> THEN acc
  ELSE BuildDict(Tail(members), SetItem(acc, Head(members).k, Head(members).v))

\* json.loads: the parsed value, or the error raised
JsonLoads(text) ==
  CASE text.kind = "object" -> [ok |-> TRUE, type |-> "dict", dict |-> BuildDict(text.members, <<>>)]
    [] text.kind = "array" -> [ok |-> TRUE, type |-> "list", dict |-> <<>>]
    [] OTHER -> [ok |-> FALSE, type |-> "JSONDecodeError", dict |-> <<>>]

\* json.dumps of a dict
JsonDumps(d) == ObjectText(d)

(***************************************************************************)
(* What the remote evaluator can answer                                    *)
(***************************************************************************)
RespScored ==
  ObjectText(<<Member("overall_fit_score", "85"), Member("recommendation", "APPROVED")>>)
\* a repeated key and an evaluation_timestamp of the model's own
RespRepeated ==
  ObjectText(<<Member("recommendation", "REJECTED"), Member("evaluation_timestamp", "t0"),
               Member("recommendation", "APPROVED")>>)
RespNotJson == Plain(<<"not json">>)

Responses == {RespScored, RespRepeated, ArrayText, RespNotJson}

\* datetime.now().isoformat() + "Z" at the n-th reading of the clock
Timestamp(n) ==
  CASE n = 1 -> "t1"
    [] n = 2 -> "t2"
    [] OTHER -> "t3"

FileStates == {"PROCESSING", "ACTIVE", "FAILED"}
\* the state of a document right after its upload
UploadStates == {"PROCESSING", "ACTIVE"}
Docs == {"resume", "jd"}

(***************************************************************************)
(* State                                                                   *)
(***************************************************************************)
VARIABLES
  jd_file_path,          \* arguments of analyze_bulk_resumes_parallel
  resume_file_paths,
  username,
  use_structured_output,
  max_workers,
  mainPc,                \* position of the orchestrating thread
  mainIdx,               \* its index in the submit / add_done_callback loops
  done_callbacks,        \* futures update_progress is registered on
  collected,             \* futures as_completed has yielded
  results,               \* the output map: resume path -> string
  completed_count,
  progress_lock,         \* the thread holding it, or NoThread
  loaded,                \* per thread: completed_count as read by `+= 1`
  tstate,                \* per task: SUBMITTED, RUNNING, SUCCEEDED, FAILED
  task,                  \* per task: the locals of process_resume
  future,                \* per task: what its future holds
  remoteFiles,           \* documents the remote service holds
  remoteCaches,          \* caches the remote service holds
  stuckDocs,             \* documents that never leave PROCESSING
  store,                 \* the user_data row of the user
  deleteCalls,           \* per task: the documents client.files.delete was called on
  clock,                 \* readings of datetime.now() so far
  request,               \* the HTTP request a route handler serves, or NoRequest
  routePc,               \* position of the route handler
  response,              \* the analysis_results list the handler returns
  handlers,              \* per concurrent request: the locals of its route handler
  uploads,               \* the uploads folder: path -> the request that wrote the file
  batch                  \* the locals of an analyze_bulk_resumes call, or NoBatch

vars == <<jd_file_path, resume_file_paths, username, use_structured_output, max_workers,
          mainPc, mainIdx, done_callbacks, collected, results, completed_count,
          progress_lock, loaded, tstate, task, future, remoteFiles, remoteCaches,
          stuckDocs, store, deleteCalls, clock, request, routePc, response,
          handlers, uploads, batch>>

\* the caller of analyze_bulk_resumes_parallel and the arguments it passed
routeVars == <<request, routePc, response, handlers, uploads, batch>>
inputs == <<jd_file_path, resume_file_paths, username, use_structured_output, max_workers,
            routeVars>>
mainVars == <<mainPc, mainIdx, done_callbacks, collected, results>>
lockVars == <<completed_count, progress_lock, loaded>>
remoteVars == <<remoteFiles, remoteCaches, stuckDocs, clock>>

total_count == Len(resume_file_paths)
Tasks == 1..total_count

NoThread == -1
MainThread == 0
Threads == {MainThread} \cup Tasks

NoPath == Path("", "")
NoText == Plain(<<>>)
EmptyUserData ==
  [files |-> <<>>, caches |-> <<>>, analysis_results |-> <<>>, batch_jobs |-> <<>>]

\* no call of analyze_bulk_resumes is in progress
NoBatch == [pc |-> "none"]

Handle(i, d) == [task |-> i, doc |-> d]

\* analyze_bulk_resumes_parallel called by other code than a route handler
NoRequest == [route |-> "none", jd |-> "", resumes_zip |-> <<>>, resume |-> "", user_uuid |-> NoneVal]

\* the locals of a process_resume call before it starts
NewTask ==
  [pc |-> "queued", resume_path |-> NoPath, jd_file_path |-> NoPath,
   doc |-> "resume", attempts |-> <<>>, response |-> NoText,
   resume_uploaded |-> "none", jd_uploaded |-> "none",
   resume_db_file_id |-> 0, jd_db_file_id |-> 0,
   cache |-> 0, cache_id |-> 0, client |-> 0,
   user_data |-> EmptyUserData, result |-> NoText, result_json |-> NoText]

PendingFuture == [kind |-> "pending", path |-> NoPath, value |-> NoText]

Init ==
  /\ jd_file_path \in JdPaths
  /\ resume_file_paths \in UNION {[1..n -> ResumePaths] : n \in 0..MaxResumes}
  /\ username \in {NoneVal, "u1"}
  /\ use_structured_output \in BOOLEAN
  /\ max_workers \in 1..MaxWorkersArg
  /\ mainPc = "submit"
  /\ mainIdx = 1
  /\ done_callbacks = {}
  /\ collected = {}
  /\ results = << >>
  /\ completed_count = 0
  /\ progress_lock = NoThread
  /\ loaded = [th \in Threads |-> 0]
  /\ tstate = [i \in Tasks |-> "NEW"]
  /\ task = [i \in Tasks |-> NewTask]
  /\ future = [i \in Tasks |-> PendingFuture]
  /\ remoteFiles = {}
  /\ remoteCaches = {}
  /\ stuckDocs = {}
  /\ store = [exists |-> FALSE, data |-> EmptyUserData]
  /\ deleteCalls = [i \in Tasks |-> {}]
  /\ clock = 0
  /\ request = NoRequest
  /\ routePc = "direct"
  /\ response = <<>>
  /\ handlers = << >>
  /\ uploads = << >>
  /\ batch = NoBatch

(***************************************************************************)
(* The worker pool (ThreadPoolExecutor(max_workers))                       *)
(***************************************************************************)
\* tasks a worker thread is occupied with
Busy == {i \in Tasks : task[i].pc \notin {"queued", "exit"}}

\* a pool that starts a thread for every queued work item
WorkerAlwaysAvailable == TRUE

\* _adjust_thread_count: a new worker thread only below max_workers
WorkerAvailable == Cardinality(Busy) < max_workers

\* one client for every call: the one the importing thread constructed
SharedClient == MainThread + 1

\* genai.Client(api_key=GEMINI_API_KEY): an instance no earlier call made;
\* instances are numbered in the order of their construction
NewClient == Cardinality({j \in Tasks : tstate[j] \notin {"NEW", "SUBMITTED"}}) + 1

\* a worker takes the oldest queued work item and calls process_resume,
\* whose first statement constructs the client
StartTask(i) ==
  /\ tstate[i] = "SUBMITTED"
  /\ \A j \in Tasks : j < i => tstate[j] # "SUBMITTED"
  /\ WorkerAvailable
  /\ tstate' = [tstate EXCEPT ![i] = "RUNNING"]
  /\ task' = [task EXCEPT ![i].pc = "prepare", ![i].client = NewClient]
  /\ UNCHANGED <<inputs, mainVars, lockVars, future, remoteVars, store, deleteCalls>>

(***************************************************************************)
(* process_resume                                                          *)
(***************************************************************************)
FutureResult(path, value) == [kind |-> "result", path |-> path, value |-> value]
FutureException(msg) == [kind |-> "exception", path |-> NoPath, value |-> Plain(<<msg>>)]

\* `return resume_path, result`
ReturnOutcome(resume_path, result) == FutureResult(resume_path, result)

\* a handler that lets the exception go on to the caller
HandlerReraises(resume_path, msg) == FutureException(msg)

\* `except Exception as e: return resume_path, f"Error: {str(e)}"`
HandlerOutcome(resume_path, msg) == FutureResult(resume_path, ErrorString(msg))

\* the worker stores what process_resume returned (or raised) in the future
SetFuture(i, outcome, state) ==
  /\ future' = [future EXCEPT ![i] = outcome]
  /\ tstate' = [tstate EXCEPT ![i] = state]
  /\ task' = [task EXCEPT ![i] = [NewTask EXCEPT !.pc = "callbacks",
                                                    !.resume_path = task[i].resume_path,
                                                    !.jd_file_path = task[i].jd_file_path]]

\* an exception raised inside the try block reaches `except Exception as e`
Raise(i, msg) == SetFuture(i, HandlerOutcome(task[i].resume_path, msg), "FAILED")

\* the end of the try block
Return(i, result) == SetFuture(i, ReturnOutcome(task[i].resume_path, result), "SUCCEEDED")

\* what a step of process_resume leaves alone, whether or not it ends the task
taskFrame == <<inputs, mainVars, lockVars, deleteCalls>>
\* ... and when it does not end it
running == <<tstate, future>>

\* db_manager.get_or_create_user: the row is inserted when absent
GetOrCreateUser == store' = [store EXCEPT !.exists = TRUE]

\* get_or_create_user raises psycopg2.Error
PrepareStoreFail(i) ==
  /\ task[i].pc = "prepare"
  /\ Truthy(username)
  /\ Raise(i, "StoreError")
  /\ UNCHANGED <<taskFrame, remoteVars, store>>

\* the error of the validation and extraction of both files, "" when there is none
PrepareError(resume_path, jd_path, resume_readable, jd_readable) ==
  IF ~SupportedFileType(resume_path) THEN "Unsupported file type"
  ELSE IF ~resume_readable THEN "ExtractError"
  ELSE IF ~SupportedFileType(jd_path) THEN "Unsupported file type"
  ELSE IF ~jd_readable THEN "ExtractError"
  ELSE ""

\* user lookup, then _validate_file_type and the byte extraction of both files
Prepare(i) ==
  /\ task[i].pc = "prepare"
  /\ IF Truthy(username) THEN GetOrCreateUser ELSE UNCHANGED store
  /\ \E resume_readable, jd_readable \in BOOLEAN :
       LET err == PrepareError(task[i].resume_path, task[i].jd_file_path, resume_readable, jd_readable)
       IN IF err # ""
          THEN Raise(i, err)
          ELSE /\ task' = [task EXCEPT ![i].pc = "upload", ![i].doc = "resume", ![i].attempts = <<>>]
               /\ UNCHANGED running
  /\ UNCHANGED <<taskFrame, remoteVars>>

(***************************************************************************)
(* upload_file_with_retry                                                  *)
(***************************************************************************)
\* a policy that retries after any error
RetryableAny(kind) == TRUE

\* retry_if_exception_type((httpx.ConnectError, ConnectionError, TimeoutError))
Retryable(kind) == kind = "transient"

\* stop_after_attempt(3)
StopRetrying(attempts) == Len(attempts) >= MaxAttempts

\* a flow that goes from the second upload straight to the cache
AfterUploadSkipsWait(t) ==
  IF t.doc = "resume"
  THEN [t EXCEPT !.pc = "upload", !.doc = "jd", !.attempts = <<>>]
  ELSE [t EXCEPT !.pc = "create_cache", !.doc = "resume", !.attempts = <<>>]

\* what follows the upload call of document d
AfterUpload(t) ==
  IF t.doc = "resume"
  THEN [t EXCEPT !.pc = "upload", !.doc = "jd", !.attempts = <<>>]
  ELSE [t EXCEPT !.pc = "wait", !.doc = "resume", !.attempts = <<>>]

SetUploaded(t, state) ==
  IF t.doc = "resume" THEN [t EXCEPT !.resume_uploaded = state]
  ELSE [t EXCEPT !.jd_uploaded = state]

SetFileId(t, id) ==
  IF t.doc = "resume" THEN [t EXCEPT !.resume_db_file_id = id]
  ELSE [t EXCEPT !.jd_db_file_id = id]

\* client.files.upload succeeds: the remote service holds the document
UploadOk(i) ==
  /\ task[i].pc = "upload"
  /\ ~StopRetrying(task[i].attempts)
  /\ \E state \in UploadStates :
       /\ remoteFiles' = remoteFiles \cup {Handle(i, task[i].doc)}
       /\ LET t == [SetUploaded(task[i], state) EXCEPT !.attempts = <<>>]
          IN task' = [task EXCEPT ![i] =
               IF Truthy(username) THEN [t EXCEPT !.pc = "save_file"]
               ELSE AfterUpload(SetFileId(t, 0))]
  /\ UNCHANGED <<taskFrame, running, remoteCaches, stuckDocs, clock, store>>

\* client.files.upload raises: tenacity retries or gives up
UploadFail(i) ==
  /\ task[i].pc = "upload"
  /\ ~StopRetrying(task[i].attempts)
  /\ \E kind \in {"transient", "other"} :
       LET attempts == Append(task[i].attempts, kind)
       IN IF Retryable(kind) /\ ~StopRetrying(attempts)
          THEN task' = [task EXCEPT ![i].attempts = attempts] /\ UNCHANGED running
          ELSE Raise(i, IF Retryable(kind) THEN "RetryError" ELSE "UploadError")
  /\ UNCHANGED <<taskFrame, remoteVars, store>>

(***************************************************************************)
(* db_manager: every save_* reads the whole blob, appends one record with  *)
(* id = len(list) + 1 and writes the whole blob back                       *)
(***************************************************************************)
FileRecord(user_data, t, i) ==
  [id |-> Len(user_data.files) + 1,
   filename |-> IF t.doc = "resume" THEN t.resume_path ELSE t.jd_file_path,
   mime_type |-> MimeType(IF t.doc = "resume" THEN t.resume_path ELSE t.jd_file_path),
   gemini_file_id |-> Handle(i, t.doc)]

CacheRecord(user_data, t) ==
  [id |-> Len(user_data.caches) + 1,
   cache_name |-> t.cache,
   jd_file_id |-> t.jd_db_file_id,
   resume_file_id |-> t.resume_db_file_id,
   ttl |-> 1800]

\* an extraction that reads the first member of that name in the text
ExtractFieldFirst(result_json, field) ==
  IF result_json.kind = "object" /\ HasKey(result_json.members, field)
  THEN result_json.members[CHOOSE n \in 1..Len(result_json.members) :
                             /\ result_json.members[n].k = field
                             /\ \A m \in 1..(n - 1) : result_json.members[m].k # field].v
  ELSE "null"

\* score and recommendation as save_analysis_result extracts them
ExtractField(result_json, field) ==
  LET parsed == JsonLoads(result_json)
  IN IF parsed.ok /\ parsed.type = "dict" THEN Get(parsed.dict, field) ELSE "null"

AnalysisRecord(user_data, t) ==
  [id |-> Len(user_data.analysis_results) + 1,
   cache_id |-> t.cache_id,
   jd_file_id |-> t.jd_db_file_id,
   resume_file_id |-> t.resume_db_file_id,
   result_json |-> t.result_json,
   score |-> ExtractField(t.result_json, "overall_fit_score"),
   recommendation |-> ExtractField(t.result_json, "recommendation")]

SavePcs == {"save_file", "save_cache", "save_result"}
CommitPcs == {"commit_file", "commit_cache", "commit_result"}

CommitPcOf(pc) ==
  CASE pc = "save_file" -> "commit_file"
    [] pc = "save_cache" -> "commit_cache"
    [] OTHER -> "commit_result"

\* SELECT data FROM user_data WHERE user_id = %s
SaveRead(i) ==
  /\ task[i].pc \in SavePcs
  /\ task' = [task EXCEPT ![i].pc = CommitPcOf(task[i].pc),
                          ![i].user_data = IF store.exists THEN store.data ELSE EmptyUserData]
  /\ UNCHANGED <<taskFrame, running, remoteVars, store>>

\* a save_* that writes the blob back as it read it
AppendedNothing(t, i) == t.user_data

\* the blob as the save_* in progress writes it
Appended(t, i) ==
  CASE t.pc = "commit_file" ->
         [t.user_data EXCEPT !.files = Append(@, FileRecord(t.user_data, t, i))]
    [] t.pc = "commit_cache" ->
         [t.user_data EXCEPT !.caches = Append(@, CacheRecord(t.user_data, t))]
    [] OTHER ->
         [t.user_data EXCEPT !.analysis_results = Append(@, AnalysisRecord(t.user_data, t))]

\* the caller's locals once the save_* returned its record id
AfterSave(t) ==
  CASE t.pc = "commit_file" ->
         AfterUpload(SetFileId(t, Len(t.user_data.files) + 1))
    [] t.pc = "commit_cache" ->
         [t EXCEPT !.pc = "score", !.cache_id = Len(t.user_data.caches) + 1]
    [] OTHER -> [t EXCEPT !.pc = "delete_resume"]

\* a save that appends the record it built from its read to the stored list
SaveCommitAppending(i) ==
  /\ task[i].pc \in CommitPcs
  /\ LET l == IF task[i].pc = "commit_file" THEN "files"
              ELSE IF task[i].pc = "commit_cache" THEN "caches" ELSE "analysis_results"
         written == Appended(task[i], i)[l]
     IN store' = [store EXCEPT !.data[l] = Append(@, written[Len(written)])]
  /\ task' = [task EXCEPT ![i] = [AfterSave(task[i]) EXCEPT !.user_data = EmptyUserData]]
  /\ UNCHANGED <<taskFrame, running, remoteVars>>

\* a save that appends to the row as it is when the save writes
SaveCommitOnCurrent(i) ==
  /\ task[i].pc \in CommitPcs
  /\ store' = [store EXCEPT !.data = Appended([task[i] EXCEPT !.user_data = store.data], i)]
  /\ task' = [task EXCEPT ![i] = [AfterSave(task[i]) EXCEPT !.user_data = EmptyUserData]]
  /\ UNCHANGED <<taskFrame, running, remoteVars>>

\* UPDATE user_data SET data = %s WHERE user_id = %s; commit; return the id
SaveCommit(i) ==
  /\ task[i].pc \in CommitPcs
  /\ store' = IF store.exists THEN [store EXCEPT !.data = Appended(task[i], i)] ELSE store
  /\ task' = [task EXCEPT ![i] = [AfterSave(task[i]) EXCEPT !.user_data = EmptyUserData]]
  /\ UNCHANGED <<taskFrame, running, remoteVars>>

\* psycopg2.Error in a save_*: rollback, re-raise
StoreRaise(i) ==
  /\ task[i].pc \in SavePcs \cup CommitPcs
  /\ Raise(i, "StoreError")
  /\ UNCHANGED <<taskFrame, remoteVars, store>>

(***************************************************************************)
(* process_resume: the wait-ready loops                                    *)
(***************************************************************************)
Uploaded(t) == IF t.doc = "resume" THEN t.resume_uploaded ELSE t.jd_uploaded

\* a loop condition that is never true
NeverWaits(t) == FALSE

\* the loop condition `state.name == "PROCESSING"`
KeepsWaiting(t) == Uploaded(t) = "PROCESSING"

\* a loop exit that raises for a document that ended in FAILED
WaitExitChecked(i) ==
  /\ task[i].pc = "wait"
  /\ ~KeepsWaiting(task[i])
  /\ IF Uploaded(task[i]) = "FAILED"
     THEN Raise(i, "ProcessingFailed")
     ELSE /\ task' = [task EXCEPT ![i] =
               IF task[i].doc = "resume" THEN [@ EXCEPT !.doc = "jd"]
               ELSE [@ EXCEPT !.pc = "create_cache", !.doc = "resume"]]
          /\ UNCHANGED running
  /\ UNCHANGED <<taskFrame, remoteVars, store>>

\* the loop condition is false: on to the next loop, then to the cache
WaitExit(i) ==
  /\ task[i].pc = "wait"
  /\ ~KeepsWaiting(task[i])
  /\ task' = [task EXCEPT ![i] =
       IF task[i].doc = "resume" THEN [@ EXCEPT !.doc = "jd"]
       ELSE [@ EXCEPT !.pc = "create_cache", !.doc = "resume"]]
  /\ UNCHANGED <<taskFrame, running, remoteVars, store>>

\* time.sleep(2); client.files.get: the document is still PROCESSING
PollStill(i) ==
  /\ task[i].pc = "wait"
  /\ KeepsWaiting(task[i])
  /\ \E never_ready \in BOOLEAN :
       stuckDocs' = IF never_ready THEN stuckDocs \cup {Handle(i, task[i].doc)} ELSE stuckDocs
  /\ UNCHANGED <<taskFrame, running, task, remoteFiles, remoteCaches, clock, store>>

\* time.sleep(2); client.files.get: the document has left PROCESSING
PollLeft(i) ==
  /\ task[i].pc = "wait"
  /\ KeepsWaiting(task[i])
  /\ Handle(i, task[i].doc) \notin stuckDocs
  /\ \E state \in FileStates \ {"PROCESSING"} :
       task' = [task EXCEPT ![i] = SetUploaded(@, state)]
  /\ UNCHANGED <<taskFrame, running, remoteVars, store>>

\* client.files.get raises
PollRaise(i) ==
  /\ task[i].pc = "wait"
  /\ KeepsWaiting(task[i])
  /\ Raise(i, "PollError")
  /\ UNCHANGED <<taskFrame, remoteVars, store>>

(***************************************************************************)
(* process_resume: cache, scoring, cleanup                                 *)
(***************************************************************************)
\* a cache record saved whatever the uploads returned
CanSaveCacheAlways(t) == TRUE

\* `if username and user_id and jd_db_file_id and resume_db_file_id`
CanSaveCache(t) ==
  /\ Truthy(username)
  /\ t.jd_db_file_id # 0
  /\ t.resume_db_file_id # 0

\* `if username and user_id and cache_id and jd_db_file_id and resume_db_file_id`
CanSaveResult(t) == CanSaveCache(t) /\ t.cache_id # 0

\* locals that name the cache of the first task, whichever task created one
CreatedShared(t, name) ==
  [t EXCEPT !.cache = 1, !.resume_uploaded = "uploaded", !.jd_uploaded = "uploaded"]

\* the locals once the cache exists: the fetched states are not read again
Created(t, name) ==
  [t EXCEPT !.cache = name, !.resume_uploaded = "uploaded", !.jd_uploaded = "uploaded"]

\* client.caches.create(contents=[jd_uploaded, resume_uploaded], ttl="1800s")
CreateCache(i) ==
  /\ task[i].pc = "create_cache"
  /\ remoteCaches' = remoteCaches \cup
       {[name |-> i, contents |-> <<Handle(i, "jd"), Handle(i, "resume")>>]}
  /\ task' = [task EXCEPT ![i] =
       IF CanSaveCache(@) THEN [Created(@, i) EXCEPT !.pc = "save_cache"]
       ELSE [Created(@, i) EXCEPT !.cache_id = 0, !.pc = "score"]]
  /\ UNCHANGED <<taskFrame, running, remoteFiles, stuckDocs, clock, store>>

\* client.caches.create raises
CreateCacheRaise(i) ==
  /\ task[i].pc = "create_cache"
  /\ Raise(i, "CacheError")
  /\ UNCHANGED <<taskFrame, remoteVars, store>>

\* result_data["evaluation_timestamp"] = current_time
\* a stamping that keeps nothing of the response
InjectTimestampOnly(result_data, current_time) ==
  <<Member("evaluation_timestamp", current_time)>>

\* result_data["evaluation_timestamp"] = current_time
InjectTimestamp(result_data, current_time) ==
  SetItem(result_data, "evaluation_timestamp", current_time)

\* the structured branch on response.text: json.loads, timestamp, json.dumps, save
ParseAndStamp(i, text) ==
  LET parsed == JsonLoads(text)
  IN IF ~parsed.ok
     THEN \* except json.JSONDecodeError: result = response.text
          /\ task' = [task EXCEPT ![i].response = text, ![i].result = text,
                                  ![i].pc = "delete_resume"]
          /\ UNCHANGED <<running, clock>>
     ELSE IF parsed.type # "dict"
     THEN \* item assignment on a value that is no dict: TypeError
          /\ Raise(i, "TypeError")
          /\ UNCHANGED clock
     ELSE LET result_json == JsonDumps(InjectTimestamp(parsed.dict, Timestamp(clock + 1)))
          IN /\ clock' = clock + 1
             /\ task' = [task EXCEPT ![i].response = text,
                           ![i].result = result_json, ![i].result_json = result_json,
                           ![i].pc = IF CanSaveResult(task[i]) THEN "save_result" ELSE "delete_resume"]
             /\ UNCHANGED running

\* client.models.generate_content(cached_content=cache.name, response_schema=ATS_SCHEMA)
ScoreStructured(i) ==
  /\ task[i].pc = "score"
  /\ use_structured_output
  /\ \E text \in Responses : ParseAndStamp(i, text)
  /\ UNCHANGED <<taskFrame, remoteFiles, remoteCaches, stuckDocs, store>>

FreeTexts == {"free text"}

\* the free-text branch: result_json = json.dumps({"text_result": result_text})
ScoreFreeText(i) ==
  /\ task[i].pc = "score"
  /\ ~use_structured_output
  /\ \E s \in FreeTexts :
       task' = [task EXCEPT ![i].response = Plain(<<s>>), ![i].result = Plain(<<s>>),
                            ![i].result_json = JsonDumps(<<Member("text_result", s)>>),
                            ![i].pc = IF CanSaveResult(task[i]) THEN "save_result" ELSE "delete_resume"]
  /\ UNCHANGED <<taskFrame, running, remoteVars, store>>

\* generate_content raises
ScoreRaise(i) ==
  /\ task[i].pc = "score"
  /\ Raise(i, "EvaluationError")
  /\ UNCHANGED <<taskFrame, remoteVars, store>>

cleanupFrame == <<inputs, mainVars, lockVars, remoteCaches, stuckDocs, clock, store>>

\* client.files.delete(name=resume_uploaded.name)
DeleteResume(i) ==
  /\ task[i].pc = "delete_resume"
  /\ deleteCalls' = [deleteCalls EXCEPT ![i] = @ \cup {"resume"}]
  /\ remoteFiles' = remoteFiles \ {Handle(i, "resume")}
  /\ task' = [task EXCEPT ![i].pc = "delete_jd"]
  /\ UNCHANGED <<cleanupFrame, running>>

\* a cleanup whose exception goes on to the handler of process_resume
DeleteResumePropagates(i) ==
  /\ task[i].pc = "delete_resume"
  /\ deleteCalls' = [deleteCalls EXCEPT ![i] = @ \cup {"resume"}]
  /\ Raise(i, "DeleteError")
  /\ UNCHANGED <<cleanupFrame, remoteFiles>>

\* it raises: `except Exception` prints a warning, the JD delete is skipped;
\* then `return resume_path, result`
DeleteResumeRaise(i) ==
  /\ task[i].pc = "delete_resume"
  /\ deleteCalls' = [deleteCalls EXCEPT ![i] = @ \cup {"resume"}]
  /\ Return(i, task[i].result)
  /\ UNCHANGED <<cleanupFrame, remoteFiles>>

\* client.files.delete(name=jd_uploaded.name), then `return resume_path, result`
DeleteJd(i) ==
  /\ task[i].pc = "delete_jd"
  /\ deleteCalls' = [deleteCalls EXCEPT ![i] = @ \cup {"jd"}]
  /\ remoteFiles' = remoteFiles \ {Handle(i, "jd")}
  /\ Return(i, task[i].result)
  /\ UNCHANGED cleanupFrame

\* it raises: `except Exception` prints a warning; then `return resume_path, result`
DeleteJdRaise(i) ==
  /\ task[i].pc = "delete_jd"
  /\ deleteCalls' = [deleteCalls EXCEPT ![i] = @ \cup {"jd"}]
  /\ Return(i, task[i].result)
  /\ UNCHANGED <<cleanupFrame, remoteFiles>>

(***************************************************************************)
(* update_progress: `with progress_lock: completed_count += 1`             *)
(***************************************************************************)
\* an acquire that never waits
LockAlwaysFree == TRUE

\* Lock.acquire returns only when no thread holds the lock
LockFree == progress_lock = NoThread

\* an update_progress without `with progress_lock`
EnterProgressUnlocked(th) ==
  /\ progress_lock' = progress_lock
  /\ loaded' = [loaded EXCEPT ![th] = completed_count]

\* __enter__ of the lock, then the read of `completed_count += 1`
EnterProgress(th) ==
  /\ LockFree
  /\ progress_lock' = th
  /\ loaded' = [loaded EXCEPT ![th] = completed_count]

\* the write of `completed_count += 1`, the print, then __exit__ of the lock
ExitProgress(th) ==
  /\ completed_count' = loaded[th] + 1
  /\ progress_lock' = NoThread
  /\ loaded' = [loaded EXCEPT ![th] = 0]

FutureDone(i) == future[i].kind # "pending"

workerCbFrame == <<inputs, mainVars, tstate, future, remoteVars, store, deleteCalls>>

\* Future._invoke_callbacks in the worker: update_progress was registered
WorkerCallbackEnter(i) ==
  /\ task[i].pc = "callbacks"
  /\ i \in done_callbacks
  /\ EnterProgress(i)
  /\ task' = [task EXCEPT ![i].pc = "in_callback"]
  /\ UNCHANGED <<workerCbFrame, completed_count>>

WorkerCallbackExit(i) ==
  /\ task[i].pc = "in_callback"
  /\ ExitProgress(i)
  /\ task' = [task EXCEPT ![i].pc = "exit"]
  /\ UNCHANGED workerCbFrame

\* the future finished before add_done_callback reached it: nothing to invoke
WorkerNoCallback(i) ==
  /\ task[i].pc = "callbacks"
  /\ i \notin done_callbacks
  /\ task' = [task EXCEPT ![i].pc = "exit"]
  /\ UNCHANGED <<workerCbFrame, lockVars>>

(***************************************************************************)
(* analyze_bulk_resumes_parallel: the orchestrating thread                 *)
(***************************************************************************)
mainFrame == <<inputs, task, future, remoteVars, store, deleteCalls>>

\* where the orchestrating thread is once a loop over the futures reached index k
AfterLoop(pc, k, next) == IF k > total_count THEN next ELSE pc

\* executor.submit(process_resume, resume_path, jd_file_path, ...), in input order
Submit ==
  /\ mainPc = "submit"
  /\ mainIdx <= total_count
  /\ tstate' = [tstate EXCEPT ![mainIdx] = "SUBMITTED"]
  /\ task' = [task EXCEPT ![mainIdx].resume_path = resume_file_paths[mainIdx],
                          ![mainIdx].jd_file_path = jd_file_path]
  /\ mainPc' = AfterLoop("submit", mainIdx + 1, "add_callbacks")
  /\ mainIdx' = IF mainIdx + 1 > total_count THEN 1 ELSE mainIdx + 1
  /\ UNCHANGED <<inputs, future, remoteVars, store, deleteCalls,
                 lockVars, done_callbacks, collected, results>>

\* future.add_done_callback(update_progress) on a future still pending or running
AddCallback ==
  /\ mainPc = "add_callbacks"
  /\ mainIdx <= total_count
  /\ ~FutureDone(mainIdx)
  /\ done_callbacks' = done_callbacks \cup {mainIdx}
  /\ mainPc' = AfterLoop("add_callbacks", mainIdx + 1, "collect")
  /\ mainIdx' = mainIdx + 1
  /\ UNCHANGED <<mainFrame, lockVars, tstate, collected, results>>

\* add_done_callback on a finished future calls update_progress at once
AddCallbackEnter ==
  /\ mainPc = "add_callbacks"
  /\ mainIdx <= total_count
  /\ FutureDone(mainIdx)
  /\ EnterProgress(MainThread)
  /\ mainPc' = "in_callback"
  /\ UNCHANGED <<mainFrame, tstate, completed_count, mainIdx, done_callbacks, collected, results>>

AddCallbackExit ==
  /\ mainPc = "in_callback"
  /\ ExitProgress(MainThread)
  /\ mainPc' = AfterLoop("add_callbacks", mainIdx + 1, "collect")
  /\ mainIdx' = mainIdx + 1
  /\ UNCHANGED <<mainFrame, tstate, done_callbacks, collected, results>>

\* an empty resume_file_paths: nothing to submit, to register or to collect
EmptyBatch ==
  /\ mainPc = "submit"
  /\ total_count = 0
  /\ mainPc' = "shutdown"
  /\ UNCHANGED <<mainFrame, lockVars, tstate, mainIdx, done_callbacks, collected, results>>

\* an assignment that replaces the map instead of extending it
PutReplacing(map, key, value) ==
  [k \in {key} |-> value]

\* results[key] = value
\* an insertion that leaves a key it finds as it is
PutKeepingFirst(map, key, value) ==
  [k \in DOMAIN map \cup {key} |-> IF k \in DOMAIN map THEN map[k] ELSE value]

Put(map, key, value) ==
  [k \in DOMAIN map \cup {key} |-> IF k = key THEN value ELSE map[k]]

\* a loop body that records nothing for a resume whose analysis failed
CollectedOnlySuccess(map, f) ==
  IF future[f].kind = "result" /\ ~StartsWith(future[f].value, "Error: ")
  THEN Put(map, future[f].path, future[f].value)
  ELSE map

\* the body of the as_completed loop for future f
\* results keyed by the input at the position of arrival
CollectedByArrival(map, f) ==
  Put(map, resume_file_paths[Cardinality(collected) + 1],
      IF future[f].kind = "result" THEN future[f].value
      ELSE UnexpectedString(future[f].value.body[1]))

Collected(map, f) ==
  IF future[f].kind = "result"
  THEN Put(map, future[f].path, future[f].value)
  ELSE Put(map, resume_file_paths[f], UnexpectedString(future[f].value.body[1]))

\* a loop that is left after the first future
AnyCollected(yielded) == yielded # {}

\* as_completed is exhausted once it has yielded every future
AllCollected(yielded) == yielded = Tasks

\* ThreadPoolExecutor.__exit__: shutdown(wait=True) joins every worker thread
AllWorkersJoined == \A i \in Tasks : task[i].pc = "exit"

\* as_completed yields a finished future; after the last one the loop ends
Collect(f) ==
  /\ mainPc = "collect"
  /\ f \notin collected
  /\ FutureDone(f)
  /\ results' = Collected(results, f)
  /\ collected' = collected \cup {f}
  /\ mainPc' = IF AllCollected(collected \cup {f}) THEN "shutdown" ELSE "collect"
  /\ UNCHANGED <<mainFrame, lockVars, tstate, mainIdx, done_callbacks>>

\* ThreadPoolExecutor.__exit__ joins the workers, then `return results`
ReturnResults ==
  /\ mainPc = "shutdown"
  /\ AllWorkersJoined
  /\ mainPc' = "done"
  /\ UNCHANGED <<mainFrame, lockVars, tstate, mainIdx, done_callbacks, collected, results>>

(***************************************************************************)
(* Api/routes.py.  The handlers work on file names as strings.             *)
(***************************************************************************)
\* entries a zip may hold
MaxEntries == 3
\* max_workers=5, the default the handlers leave in place
DefaultMaxWorkers == 5

\* the last position of character c among the first n of s, 0 when absent
RECURSIVE LastIndexOf(_, _, _)
LastIndexOf(s, c, n) ==
  IF n = 0 THEN 0
  ELSE IF SubSeq(s, n, n) = c THEN n ELSE LastIndexOf(s, c, n - 1)

\* os.path.basename
Basename(s) == SubSeq(s, LastIndexOf(s, "/", Len(s)) + 1, Len(s))

\* os.path.join of a directory and a relative name
OsPathJoin(dir, name) == dir \o "/" \o name

\* PurePath.suffix: from the last dot of the name, unless it leads or ends it
Suffix(s) ==
  LET name == Basename(s)
      dot == LastIndexOf(name, ".", Len(name))
  IN IF 1 < dot /\ dot < Len(name) THEN SubSeq(name, dot, Len(name)) ELSE ""

\* Path(resume_path) as process_resume builds it from the string, and back
PathOf(s) == Path(SubSeq(s, 1, Len(s) - Len(Suffix(s))), Suffix(s))
PathStr(path) == path.stem \o path.suffix

LowerChar(c) ==
  CASE c = "P" -> "p"
    [] c = "D" -> "d"
    [] c = "F" -> "f"
    [] c = "R" -> "r"
    [] OTHER -> c

\* str.lower
RECURSIVE StrLower(_)
StrLower(s) == IF s = "" THEN "" ELSE LowerChar(SubSeq(s, 1, 1)) \o StrLower(Tail(s))

\* str.endswith
EndsWith(s, t) == Len(s) >= Len(t) /\ SubSeq(s, Len(s) - Len(t) + 1, Len(s)) = t

\* a filter that compares the name as it is written
IsPdfExact(file) == EndsWith(file, ".pdf")

\* `if file.lower().endswith('.pdf')`
IsPdf(file) == EndsWith(StrLower(file), ".pdf")

\* zip_ref.extractall(temp_dir): the files the directory holds afterwards,
\* one per member name (a name that occurs twice is written twice)
ExtractAll(zip) == {zip[n] : n \in 1..Len(zip)}

InSubdir(name) == LastIndexOf(name, "/", Len(name)) > 0

\* os.walk(temp_dir): top-down, the files of a directory in listing order
Walks(fs) ==
  {w \in [1..Cardinality(fs) -> fs] :
     /\ \A m, n \in 1..Cardinality(fs) : m # n => w[m] # w[n]
     /\ \A m, n \in 1..Cardinality(fs) : m < n => ~(InSubdir(w[m]) /\ ~InSubdir(w[n]))}

\* the destination of the file copied as candidate number k
DestPath(k, file) == OsPathJoin("uploads", "resume_" \o ToString(k) \o "_" \o file)

\* the body of the os.walk loops over the rest of the walk
RECURSIVE Candidates(_, _)
Candidates(walk, resume_filenames) ==
  IF walk = <<>> THEN resume_filenames
  ELSE LET file == Basename(Head(walk))
       IN Candidates(Tail(walk),
                     IF IsPdf(file)
                     THEN Append(resume_filenames, DestPath(Len(resume_filenames), file))
                     ELSE resume_filenames)

callArgs == <<jd_file_path, resume_file_paths, username, use_structured_output, max_workers>>

\* asyncio.to_thread(analyze_bulk_resumes_parallel, jd_filename, resume_filenames,
\* username=user_uuid): the call starts with fresh locals
CallOrchestrator(jd_filename, resume_filenames, user_uuid) ==
  LET n == Len(resume_filenames) IN
  /\ jd_file_path' = PathOf(jd_filename)
  /\ resume_file_paths' = [k \in 1..n |-> PathOf(resume_filenames[k])]
  /\ username' = user_uuid
  /\ use_structured_output' = TRUE
  /\ max_workers' = DefaultMaxWorkers
  /\ mainPc' = "submit"
  /\ mainIdx' = 1
  /\ done_callbacks' = {}
  /\ collected' = {}
  /\ results' = << >>
  /\ completed_count' = 0
  /\ progress_lock' = NoThread
  /\ loaded' = [th \in 0..n |-> 0]
  /\ tstate' = [i \in 1..n |-> "NEW"]
  /\ task' = [i \in 1..n |-> NewTask]
  /\ future' = [i \in 1..n |-> PendingFuture]
  /\ deleteCalls' = [i \in 1..n |-> {}]
  /\ routePc' = "analysing"
  /\ UNCHANGED <<request, response, handlers, uploads, batch, remoteVars, store>>

\* POST /bulk-upload/ up to the call of the orchestrator
BulkUpload ==
  /\ routePc = "request"
  /\ request.route = "bulk"
  /\ \E walk \in Walks(ExtractAll(request.resumes_zip)) :
       CallOrchestrator(OsPathJoin("uploads", request.jd), Candidates(walk, <<>>),
                        request.user_uuid)

\* POST /upload/ up to the call of the orchestrator
UploadSingle ==
  /\ routePc = "request"
  /\ request.route = "single"
  /\ CallOrchestrator(OsPathJoin("uploads", request.jd),
                      <<OsPathJoin("uploads", request.resume)>>, request.user_uuid)

\* an element that carries the whole key
FormattedFullKey(key, value) ==
  LET parsed == JsonLoads(value)
  IN [resume_file |-> PathStr(key),
      analysis |-> IF parsed.ok THEN [type |-> parsed.type, dict |-> parsed.dict] ELSE value]

\* the element appended for one item of analysis_results.items()
Formatted(key, value) ==
  LET parsed == JsonLoads(value)
  IN [resume_file |-> Basename(PathStr(key)),
      analysis |-> IF parsed.ok THEN [type |-> parsed.type, dict |-> parsed.dict] ELSE value]

\* the orders a dict of these keys can be iterated in
ItemOrders(keys) ==
  {o \in [1..Cardinality(keys) -> keys] :
     \A m, n \in 1..Cardinality(keys) : m # n => o[m] # o[n]}

\* both handlers after the call: `return {"analysis_results": formatted_results}`
Respond ==
  /\ routePc = "analysing"
  /\ mainPc = "done"
  /\ \E order \in ItemOrders(DOMAIN results) :
       response' = [k \in 1..Len(order) |-> Formatted(order[k], results[order[k]])]
  /\ routePc' = "responded"
  /\ UNCHANGED <<callArgs, request, handlers, uploads, batch, mainVars, lockVars, tstate,
                 task, future, remoteVars, store, deleteCalls>>

ZipNames == {"r1.pdf", "notes.txt", "sub/r2.PDF", "sub/r1.pdf"}
Zips == UNION {[1..n -> ZipNames] : n \in 0..MaxEntries}

BulkRequest(zip) ==
  [route |-> "bulk", jd |-> "jd.pdf", resumes_zip |-> zip, resume |-> "", user_uuid |-> "u1"]
SingleRequest(resume) ==
  [route |-> "single", jd |-> "jd.pdf", resumes_zip |-> <<>>, resume |-> resume, user_uuid |-> "u1"]

\* the orchestrator has not been called
OrchestratorIdle ==
  /\ response = <<>>
  /\ jd_file_path = NoPath
  /\ resume_file_paths = <<>>
  /\ username = NoneVal
  /\ use_structured_output = TRUE
  /\ max_workers = DefaultMaxWorkers
  /\ mainPc = "idle"
  /\ mainIdx = 1
  /\ done_callbacks = {}
  /\ collected = {}
  /\ results = << >>
  /\ completed_count = 0
  /\ progress_lock = NoThread
  /\ loaded = [th \in {MainThread} |-> 0]
  /\ tstate = << >>
  /\ task = << >>
  /\ future = << >>
  /\ remoteFiles = {}
  /\ remoteCaches = {}
  /\ stuckDocs = {}
  /\ deleteCalls = << >>
  /\ clock = 0

\* one request, handled alone
InitHandler ==
  /\ routePc = "request"
  /\ OrchestratorIdle
  /\ handlers = << >>
  /\ uploads = << >>
  /\ batch = NoBatch

\* GET /results/{user_uuid}.  The store variable is the row of StoreOwner.
StoreOwner == "u1"
\* analysis results a row may hold when the request arrives
MaxStored == 3

\* db_manager.get_user_data: the row, if there is one
HasRow(user_uuid) == user_uuid = StoreOwner /\ store.exists

\* a test that lets an empty list through
NoResultsNever(analysis_results) == FALSE

\* `if not analysis_results`
NoResults(analysis_results) == Len(analysis_results) = 0

\* json.loads succeeds on a value that is no dict: analysis_data.get raises
\* AttributeError, which `except (json.JSONDecodeError, KeyError)` lets pass
CleaningRaises(result) ==
  JsonLoads(result.result_json).ok /\ JsonLoads(result.result_json).type # "dict"

\* a loop body that passes the stored record on as it is
CleanedAsStored(result) == result

\* the body of the loop over analysis_results, for a record it does not raise on
CleanedResult(result) ==
  LET parsed == JsonLoads(result.result_json)
  IN IF ~parsed.ok
     THEN [analysis_id |-> result.id, error |-> "Failed to parse analysis data"]
     ELSE [analysis_id |-> result.id,
           overall_fit_score |-> Get(parsed.dict, "overall_fit_score"),
           recommendation |-> Get(parsed.dict, "recommendation"),
           evaluation_timestamp |-> Get(parsed.dict, "evaluation_timestamp")]

\* what get_user_results answers when the store can be read
ResultsResponse(user_uuid) ==
  LET analysis_results == store.data.analysis_results
  IN IF ~HasRow(user_uuid)
     THEN [status |-> 404, detail |-> "No data found"]
     ELSE IF NoResults(analysis_results)
     THEN [status |-> 404, detail |-> "No analysis results found"]
     ELSE IF \E n \in 1..Len(analysis_results) : CleaningRaises(analysis_results[n])
     THEN [status |-> 500, detail |-> "Internal server error: AttributeError"]
     ELSE LET cleaned_results == [n \in 1..Len(analysis_results) |->
                                   CleanedResult(analysis_results[n])]
          IN [status |-> 200, user_uuid |-> user_uuid,
              total_results |-> Len(cleaned_results), analyses |-> cleaned_results]

getFrame == <<callArgs, request, handlers, uploads, batch, mainVars, lockVars, tstate, task,
              future, remoteVars, store, deleteCalls>>

\* GET /results/{user_uuid}
GetUserResults ==
  /\ routePc = "request"
  /\ request.route = "results"
  /\ response' = ResultsResponse(request.user_uuid)
  /\ routePc' = "responded"
  /\ UNCHANGED getFrame

\* get_user_data raises psycopg2.Error: `except Exception` answers 500
GetUserResultsStoreFail ==
  /\ routePc = "request"
  /\ request.route = "results"
  /\ response' = [status |-> 500, detail |-> "Internal server error: StoreError"]
  /\ routePc' = "responded"
  /\ UNCHANGED getFrame

ResultsRequest(user_uuid) ==
  [route |-> "results", jd |-> "", resumes_zip |-> <<>>, resume |-> "", user_uuid |-> user_uuid]

\* result_json as the save paths write it: json.dumps of the stamped object,
\* or of {"text_result": ...}
WrittenTexts ==
  {JsonDumps(InjectTimestamp(JsonLoads(text).dict, Timestamp(1))) : text \in {RespScored, RespRepeated}}
    \cup {JsonDumps(<<Member("text_result", s)>>) : s \in FreeTexts}

\* ... and as any writer of the table can leave it
StoredTexts == WrittenTexts \cup {RespNotJson, ArrayText}

\* the record save_analysis_result appends for result_json as the n-th of a list
StoredRecord(n, result_json) ==
  [id |-> n, cache_id |-> n, jd_file_id |-> 2 * n, resume_file_id |-> 2 * n - 1,
   result_json |-> result_json,
   score |-> ExtractField(result_json, "overall_fit_score"),
   recommendation |-> ExtractField(result_json, "recommendation")]

\* the rows a request can find, their result_json drawn from texts
StoredRows(texts) ==
  {[exists |-> FALSE, data |-> EmptyUserData]}
    \cup {[exists |-> TRUE,
           data |-> [EmptyUserData EXCEPT !.analysis_results =
                       [n \in 1..Len(seq) |-> StoredRecord(n, seq[n])]]] :
          seq \in UNION {[1..len -> texts] : len \in 0..MaxStored}}

(***************************************************************************)
(* analyze_two_files(file1_path, file2_path): one pair, no executor.       *)
(* file1 is the JD, file2 the resume; the call's locals are task[1].       *)
(***************************************************************************)
\* the next iteration of `for idx, f in enumerate([file1_path, file2_path])`,
\* or the code after the loop
NextFile(t) ==
  IF t.doc = "jd" THEN [t EXCEPT !.pc = "tf_upload", !.doc = "resume"]
  ELSE [t EXCEPT !.pc = "tf_cache"]

TwoFilesPath(t) == IF t.doc = "jd" THEN t.jd_file_path ELSE t.resume_path

\* an exception leaves analyze_two_files, which has no handler of its own
TwoFilesRaise(i, msg) == SetFuture(i, FutureException(msg), "FAILED")

\* the loop body up to the upload: validation, then upload_file_with_retry
TwoFilesUpload(i) ==
  /\ task[i].pc = "tf_upload"
  /\ IF ~SupportedFileType(TwoFilesPath(task[i]))
     THEN TwoFilesRaise(i, "Unsupported file type") /\ UNCHANGED remoteFiles
     ELSE \E uploaded \in BOOLEAN, state \in UploadStates :
            IF uploaded
            THEN /\ remoteFiles' = remoteFiles \cup {Handle(i, task[i].doc)}
                 /\ task' = [task EXCEPT ![i] = [SetUploaded(@, state) EXCEPT !.pc = "tf_wait"]]
                 /\ UNCHANGED running
            ELSE \* except Exception: a PDF re-raises, any other file is skipped
                 /\ UNCHANGED remoteFiles
                 /\ IF Lower(TwoFilesPath(task[i]).suffix) = ".pdf"
                    THEN TwoFilesRaise(i, "UploadError")
                    ELSE task' = [task EXCEPT ![i] = NextFile(@)] /\ UNCHANGED running
  /\ UNCHANGED <<taskFrame, remoteCaches, stuckDocs, clock, store>>

\* the wait loop of the file just uploaded, then uploaded_files.append
TwoFilesWait(i) ==
  /\ task[i].pc = "tf_wait"
  /\ IF KeepsWaiting(task[i])
     THEN \E state \in FileStates \ {"PROCESSING"} :
            task' = [task EXCEPT ![i] = SetUploaded(@, state)]
     ELSE task' = [task EXCEPT ![i] = NextFile(@)]
  /\ UNCHANGED <<taskFrame, running, remoteVars, store>>

\* uploaded_files as the loop filled it
UploadedFiles(i, t) ==
  (IF t.jd_uploaded # "none" THEN <<Handle(i, "jd")>> ELSE <<>>)
    \o (IF t.resume_uploaded # "none" THEN <<Handle(i, "resume")>> ELSE <<>>)

\* client.caches.create(contents=uploaded_files, ttl="1800s")
TwoFilesCreateCache(i) ==
  /\ task[i].pc = "tf_cache"
  /\ remoteCaches' = remoteCaches \cup {[name |-> i, contents |-> UploadedFiles(i, task[i])]}
  /\ task' = [task EXCEPT ![i].cache = i, ![i].pc = "tf_score"]
  /\ UNCHANGED <<taskFrame, running, remoteFiles, stuckDocs, clock, store>>

\* generate_content and the return of the result
TwoFilesScore(i) ==
  /\ task[i].pc = "tf_score"
  /\ IF use_structured_output
     THEN \E text \in Responses :
            LET parsed == JsonLoads(text)
            IN IF ~parsed.ok THEN Return(i, text) /\ UNCHANGED clock
               ELSE IF parsed.type # "dict" THEN TwoFilesRaise(i, "TypeError") /\ UNCHANGED clock
               ELSE /\ clock' = clock + 1
                    /\ Return(i, JsonDumps(InjectTimestamp(parsed.dict, Timestamp(clock + 1))))
     ELSE \E s \in FreeTexts : Return(i, Plain(<<s>>)) /\ UNCHANGED clock
  /\ UNCHANGED <<taskFrame, remoteFiles, remoteCaches, stuckDocs, store>>

TwoFilesPaths == {Path("jd", ".pdf"), Path("jd", ".DOCX"), Path("a", ".pdf"), Path("b", ".DOCX"),
                 Path("c", ".txt")}

\* analyze_two_files has been called without a username
InitTwoFiles ==
  /\ jd_file_path \in TwoFilesPaths
  /\ resume_file_paths \in [1..1 -> TwoFilesPaths]
  /\ username = NoneVal
  /\ use_structured_output \in BOOLEAN
  /\ max_workers = 1
  /\ mainPc = "two_files"
  /\ mainIdx = 1
  /\ done_callbacks = {}
  /\ collected = {}
  /\ results = << >>
  /\ completed_count = 0
  /\ progress_lock = NoThread
  /\ loaded = [th \in Threads |-> 0]
  /\ tstate = [i \in Tasks |-> "RUNNING"]
  /\ task = [i \in Tasks |-> [NewTask EXCEPT !.pc = "tf_upload", !.doc = "jd", !.client = 1,
                                             !.resume_path = resume_file_paths[i],
                                             !.jd_file_path = jd_file_path]]
  /\ future = [i \in Tasks |-> PendingFuture]
  /\ remoteFiles = {}
  /\ remoteCaches = {}
  /\ stuckDocs = {}
  /\ store = [exists |-> FALSE, data |-> EmptyUserData]
  /\ deleteCalls = [i \in Tasks |-> {}]
  /\ clock = 0
  /\ request = NoRequest
  /\ routePc = "direct"
  /\ response = <<>>
  /\ handlers = << >>
  /\ uploads = << >>
  /\ batch = NoBatch

NextTwoFiles ==
  \/ \E i \in Tasks : TwoFilesUpload(i)
  \/ \E i \in Tasks : TwoFilesWait(i)
  \/ \E i \in Tasks : TwoFilesCreateCache(i)
  \/ \E i \in Tasks : TwoFilesScore(i)

SpecTwoFiles == InitTwoFiles /\ [][NextTwoFiles]_vars

(***************************************************************************)
(* The system                                                              *)
(***************************************************************************)
MainStep ==
  \/ Submit
  \/ EmptyBatch
  \/ AddCallback
  \/ AddCallbackEnter
  \/ AddCallbackExit
  \/ (\E f \in Tasks : Collect(f))
  \/ ReturnResults

Next ==
  \/ Submit
  \/ EmptyBatch
  \/ AddCallback
  \/ AddCallbackEnter
  \/ AddCallbackExit
  \/ \E f \in Tasks : Collect(f)
  \/ ReturnResults
  \/ \E i \in Tasks : StartTask(i)
  \/ \E i \in Tasks : PrepareStoreFail(i)
  \/ \E i \in Tasks : Prepare(i)
  \/ \E i \in Tasks : UploadOk(i)
  \/ \E i \in Tasks : UploadFail(i)
  \/ \E i \in Tasks : SaveRead(i)
  \/ \E i \in Tasks : SaveCommit(i)
  \/ \E i \in Tasks : StoreRaise(i)
  \/ \E i \in Tasks : WaitExit(i)
  \/ \E i \in Tasks : PollStill(i)
  \/ \E i \in Tasks : PollLeft(i)
  \/ \E i \in Tasks : PollRaise(i)
  \/ \E i \in Tasks : CreateCache(i)
  \/ \E i \in Tasks : CreateCacheRaise(i)
  \/ \E i \in Tasks : ScoreStructured(i)
  \/ \E i \in Tasks : ScoreFreeText(i)
  \/ \E i \in Tasks : ScoreRaise(i)
  \/ \E i \in Tasks : DeleteResume(i)
  \/ \E i \in Tasks : DeleteResumeRaise(i)
  \/ \E i \in Tasks : DeleteJd(i)
  \/ \E i \in Tasks : DeleteJdRaise(i)
  \/ \E i \in Tasks : WorkerCallbackEnter(i)
  \/ \E i \in Tasks : WorkerCallbackExit(i)
  \/ \E i \in Tasks : WorkerNoCallback(i)

\* Batches of up to MaxResumes resumes.  A batch of two or more runs without a
\* user identifier: its tasks do not touch the Document Store.
InitBatch == Init /\ (total_count > 1 => ~Truthy(username))
Spec == InitBatch /\ [][Next]_vars

\* A batch of at most one resume: process_resume from start to end, with the store.
InitTask == Init /\ total_count <= 1
SpecTask == InitTask /\ [][Next]_vars

(***************************************************************************)
(* Properties of the returned map                                          *)
(***************************************************************************)
InputPaths == {resume_file_paths[i] : i \in Tasks}

Returned == mainPc = "done"

Terminal(i) == tstate[i] \in {"SUCCEEDED", "FAILED"}

\* C1, as the claim states it: whatever fails, the returned map has exactly N
\* keys, one for each of the N elements of the input sequence.
C1_OneKeyPerElement ==
  Returned => Cardinality(DOMAIN results) = total_count

\* C1, amended: whatever fails, the keys of the returned map are exactly the
\* paths that occur in the input sequence, one key for each distinct path;
\* that is N keys when the N paths are pairwise distinct, fewer when a path
\* occurs more than once, and none for an empty batch.
C1_OneKeyPerPath ==
  Returned =>
    /\ DOMAIN results = InputPaths
    /\ Cardinality(DOMAIN results) <= total_count
    /\ (\A i, j \in Tasks : i # j => resume_file_paths[i] # resume_file_paths[j])
         => Cardinality(DOMAIN results) = total_count

\* a batch that names one resume twice has returned, one task having failed
C1_RepeatedPathReturned ==
  /\ Returned
  /\ total_count = 2
  /\ resume_file_paths[1] = resume_file_paths[2]
  /\ Cardinality(DOMAIN results) = 1
  /\ \E i \in Tasks : tstate[i] = "FAILED"

\* C2: failures are isolated.  Once the batch has returned, every input path
\* has an entry and the entry is the outcome that an analysis of that very
\* path returned, also when the analysis of another path failed; and the
\* collecting loop is left only after every future has been collected, so
\* that no failure ends the batch early.
C2_FailureIsolated ==
  /\ mainPc \in {"shutdown", "done"} =>
       /\ collected = Tasks
       /\ \A i \in Tasks : Terminal(i) /\ FutureDone(i)
  /\ Returned =>
       \A p \in Tasks :
         /\ resume_file_paths[p] \in DOMAIN results
         /\ \E j \in Tasks :
              /\ resume_file_paths[j] = resume_file_paths[p]
              /\ future[j].kind = "result"
              /\ results[resume_file_paths[p]] = future[j].value

\* a batch has returned in which one analysis failed and the analysis of
\* another path succeeded with a scored object
C2_OneFailedOneScored ==
  /\ Returned
  /\ \E q, p \in Tasks :
       /\ resume_file_paths[q] # resume_file_paths[p]
       /\ tstate[q] = "FAILED"
       /\ StartsWith(results[resume_file_paths[q]], "Error: ")
       /\ tstate[p] = "SUCCEEDED"
       /\ results[resume_file_paths[p]].kind = "object"

(***************************************************************************)
(* Properties of process_resume                                            *)
(***************************************************************************)
\* the messages of the exceptions the steps of process_resume raise
Messages ==
  {"StoreError", "Unsupported file type", "ExtractError", "RetryError", "UploadError",
   "PollError", "CacheError", "TypeError", "EvaluationError"}

\* a value a completed analysis hands back: the scored object on the
\* structured path, the evaluator's text on the free-text path
IsAnalysis(value) ==
  IF use_structured_output
  THEN JsonLoads(value).ok /\ JsonLoads(value).type = "dict"
  ELSE value \in {Plain(<<s>>) : s \in FreeTexts}

WasUploaded(i, d) == Handle(i, d) \in remoteFiles \/ d \in deleteCalls[i]

\* C4: a task that ends after both of its documents were uploaded has invoked
\* client.files.delete for the resume handle and for the JD handle, and
\* neither handle is left at the remote service, whichever way the task ends.
C4_BothHandlesReleased ==
  \A i \in Tasks :
    (Terminal(i) /\ WasUploaded(i, "resume") /\ WasUploaded(i, "jd")) =>
      /\ deleteCalls[i] = Docs
      /\ \A d \in Docs : Handle(i, d) \notin remoteFiles

(***************************************************************************)
(* Properties of the progress counter, the pool and the task states        *)
(***************************************************************************)
\* the orchestrating thread is past future i in the add_done_callback loop
MainPast(i) ==
  \/ mainPc \in {"collect", "shutdown", "done"}
  \/ mainPc \in {"add_callbacks", "in_callback"} /\ mainIdx > i

\* the futures for which update_progress has run to its end: in the worker
\* when the callback was registered in time, else in the orchestrating thread
Reported ==
  {i \in Tasks : IF i \in done_callbacks THEN task[i].pc = "exit" ELSE MainPast(i)}

\* the threads inside update_progress
InUpdateProgress ==
  {i \in Tasks : task[i].pc = "in_callback"}
    \cup (IF mainPc = "in_callback" THEN {MainThread} ELSE {})

C5_CounterState ==
  /\ completed_count = Cardinality(Reported)
  /\ 0 <= completed_count /\ completed_count <= total_count
  /\ InUpdateProgress = {th \in Threads : progress_lock = th}
  /\ (\A i \in Tasks : i \in Reported) => completed_count = total_count
  /\ Returned => completed_count = total_count

C5_CounterStep ==
  /\ completed_count' \in {completed_count, completed_count + 1}
  /\ completed_count' # completed_count =>
       /\ progress_lock \in Threads
       /\ progress_lock' = NoThread

\* C5: the completion counter counts every completion exactly once.  In every
\* state it is the number of futures whose update_progress has run, so it is
\* between 0 and N and no future is counted twice; only the one thread that
\* holds progress_lock is inside update_progress; every change is +1, made
\* by the holder of the lock; and it is N once every completion has been
\* reported, in particular when the function returns.
C5_CountsEachCompletionOnce ==
  []C5_CounterState /\ [][C5_CounterStep]_vars

\* a batch of two has returned with the counter at 2, one update_progress
\* having run in a worker and one in the orchestrating thread, one task failed
C5_BothCounted ==
  /\ Returned
  /\ total_count = 2
  /\ completed_count = 2
  /\ Cardinality(done_callbacks) = 1
  /\ \E i \in Tasks : tstate[i] = "FAILED"

\* C6: never more than max_workers process_resume calls are RUNNING (nor are
\* more worker threads occupied); the k-th submitted task is given the k-th
\* element of the resume path sequence and the one JD path of the call, and
\* once the submit loop is over every element has its task.
C6_PoolBound ==
  /\ Cardinality({i \in Tasks : tstate[i] = "RUNNING"}) <= max_workers
  /\ Cardinality(Busy) <= max_workers
  /\ \A i \in Tasks :
       tstate[i] # "NEW" =>
         /\ task[i].resume_path = resume_file_paths[i]
         /\ task[i].jd_file_path = jd_file_path
  /\ {i \in Tasks : tstate[i] # "NEW"} =
       (IF mainPc = "submit" THEN 1..(mainIdx - 1) ELSE Tasks)

\* with one worker, the first task is being scored while the second waits in
\* the queue
C6_SecondTaskQueued ==
  /\ max_workers = 1
  /\ total_count = 2
  /\ tstate[1] = "RUNNING" /\ task[1].pc = "score"
  /\ tstate[2] = "SUBMITTED"

TaskTransitions ==
  {<<"NEW", "SUBMITTED">>, <<"SUBMITTED", "RUNNING">>,
   <<"RUNNING", "SUCCEEDED">>, <<"RUNNING", "FAILED">>}

C7_BatchState ==
  /\ mainPc \in {"submit", "add_callbacks", "in_callback", "collect", "shutdown", "done"}
  /\ \A i \in Tasks : (i \in collected /\ tstate[i] = "FAILED") =>
       resume_file_paths[i] \in DOMAIN results
  /\ Returned =>
       /\ collected = Tasks
       /\ \A i \in Tasks : Terminal(i) /\ resume_file_paths[i] \in DOMAIN results

C7_TaskStep ==
  /\ \A i \in Tasks : tstate'[i] # tstate[i] => <<tstate[i], tstate'[i]>> \in TaskTransitions
  /\ Returned => UNCHANGED <<results, tstate>>

\* C7: a task moves only SUBMITTED -> RUNNING -> SUCCEEDED or FAILED and
\* never leaves SUCCEEDED or FAILED; a collected FAILED task has its map
\* entry; the batch returns its map only after every task has ended and been
\* collected, and it has no state other than running and returned, so that
\* a batch without a single success returns a map as well.
C7_TaskAndBatchStates ==
  []C7_BatchState /\ [][C7_TaskStep]_vars

\* a batch of two has returned its map although both tasks failed
C7_ReturnedWithoutSuccess ==
  /\ Returned
  /\ total_count = 2
  /\ \A i \in Tasks : tstate[i] = "FAILED"
  /\ DOMAIN results = InputPaths

\* the steps of task i other than a poll that finds the document still
\* PROCESSING and a poll that raises
TaskProgress(i) ==
  \/ StartTask(i)
  \/ PrepareStoreFail(i)
  \/ Prepare(i)
  \/ UploadOk(i)
  \/ UploadFail(i)
  \/ SaveRead(i)
  \/ SaveCommit(i)
  \/ StoreRaise(i)
  \/ WaitExit(i)
  \/ PollLeft(i)
  \/ CreateCache(i)
  \/ CreateCacheRaise(i)
  \/ ScoreStructured(i)
  \/ ScoreFreeText(i)
  \/ ScoreRaise(i)
  \/ DeleteResume(i)
  \/ DeleteResumeRaise(i)
  \/ DeleteJd(i)
  \/ DeleteJdRaise(i)
  \/ WorkerCallbackEnter(i)
  \/ WorkerCallbackExit(i)
  \/ WorkerNoCallback(i)

\* All fairness the scheduling gives: the orchestrating thread and every
\* worker thread keep taking steps while they can, every remote call returns
\* or raises, and a document that is not one of those that stay PROCESSING
\* for ever is in the end seen to have left PROCESSING.  Nothing makes a
\* poll raise, so a task may go on polling such a document for ever.
\* Batches of two run on one worker, without user and with structured output.
InitLive ==
  /\ Init
  /\ total_count > 1 =>
       /\ ~Truthy(username)
       /\ use_structured_output
       /\ max_workers = 1
       /\ SupportedFileType(jd_file_path)

LiveSpec ==
  /\ InitLive
  /\ [][Next]_vars
  /\ WF_vars(MainStep)
  /\ \A i \in 1..MaxResumes : WF_vars(i \in Tasks /\ TaskProgress(i))

(***************************************************************************)
(* Properties of the wait-ready loops, the upload and the stamping         *)
(***************************************************************************)
\* task i polls a document that never leaves PROCESSING
StuckWaiting(i) ==
  /\ task[i].pc = "wait"
  /\ Uploaded(task[i]) = "PROCESSING"
  /\ Handle(i, task[i].doc) \in stuckDocs

\* task i goes past a wait-ready loop in this step
LeavesLoop(i) ==
  /\ task[i].pc = "wait"
  /\ \/ task'[i].pc = "wait" /\ task'[i].doc # task[i].doc
     \/ task'[i].pc = "create_cache"

\* the i-th element of the sequence, if there is one, has a task in the queue
IsSubmitted(i) == IF i \in Tasks THEN tstate[i] = "SUBMITTED" ELSE FALSE

\* that task is SUCCEEDED or FAILED
HasEnded(i) == IF i \in Tasks THEN Terminal(i) ELSE FALSE

\* C8, as the claim states it: the task of a document that stays PROCESSING
\* for ever never completes.
C8_StuckTaskNeverEnds ==
  [][\A i \in Tasks : StuckWaiting(i) => StuckWaiting(i)']_vars

C8_WaitStep ==
  \A i \in Tasks :
    /\ LeavesLoop(i) => Uploaded(task[i]) # "PROCESSING"
    /\ StuckWaiting(i) =>
         \/ StuckWaiting(i)'
         \/ /\ tstate'[i] = "FAILED"
            /\ future'[i].value = ErrorString("PollError")

C8_WaitState ==
  \A i \in Tasks :
    /\ (task[i].pc = "wait" /\ Uploaded(task[i]) = "PROCESSING") => ENABLED PollStill(i)
    /\ StuckWaiting(i) =>
         /\ tstate[i] = "RUNNING"
         /\ i \in Busy
         /\ ~Returned

\* C8, amended: a task goes past a wait-ready loop only from a state in which
\* the handle is not PROCESSING, and while it is PROCESSING another poll is
\* always possible, whatever the number of polls made.  With fair scheduling,
\* when every remote call returns or raises and no document stays PROCESSING
\* for ever, every submitted task ends SUCCEEDED or FAILED and the batch
\* returns.  The task of a document that stays PROCESSING for ever is
\* RUNNING, holds its worker and keeps the batch from returning for as long
\* as its polls return; it ends, FAILED, only when a poll raises.
C8_WaitReady ==
  /\ [][C8_WaitStep]_vars
  /\ []C8_WaitState
  /\ \A i \in 1..MaxResumes :
       IsSubmitted(i) ~> (HasEnded(i) \/ stuckDocs # {})
  /\ <>(Returned \/ stuckDocs # {})

\* on the one worker the first task polls a resume that never leaves
\* PROCESSING while the second task waits in the queue
C8_WorkerHeld ==
  /\ total_count = 2
  /\ StuckWaiting(1)
  /\ tstate[2] = "SUBMITTED"
  /\ mainPc = "collect"

C9_UploadState ==
  \A i \in Tasks :
    task[i].pc = "upload" =>
      /\ Len(task[i].attempts) < MaxAttempts
      /\ \A k \in 1..Len(task[i].attempts) : task[i].attempts[k] = "transient"

C9_UploadStep ==
  \A i \in Tasks : \A d \in Docs :
    (task[i].pc = "upload" /\ task[i].doc = d) =>
      /\ (Handle(i, d) \in remoteFiles' \ remoteFiles) =>
           ~(task'[i].pc = "upload" /\ task'[i].doc = d)
      /\ (FutureDone(i)' /\ future'[i].value = ErrorString("RetryError")) =>
           Len(task[i].attempts) = MaxAttempts - 1
      /\ (task'[i] # task[i] /\ task'[i].pc = "upload" /\ task'[i].doc = d) =>
           /\ Len(task'[i].attempts) = Len(task[i].attempts) + 1
           /\ task'[i].attempts[Len(task'[i].attempts)] = "transient"

\* C9: one call of upload_file_with_retry makes at most MaxAttempts attempts:
\* an attempt is made only with fewer than MaxAttempts failed attempts behind
\* it, all of them transient connection errors; an attempt that succeeds ends
\* the call; an error of any other kind ends the call at once; and the call
\* gives up after the third transient error in a row.
C9_BoundedRetry ==
  []C9_UploadState /\ [][C9_UploadStep]_vars

\* a call has given up after its third transient error
C9_GaveUp ==
  \E i \in Tasks :
    /\ tstate[i] = "FAILED"
    /\ future[i].value = ErrorString("RetryError")

PostScore == {"save_result", "commit_result", "delete_resume", "delete_jd"}

\* task i holds the result of a structured response that is a JSON object
Scored(i) ==
  /\ use_structured_output
  /\ task[i].pc \in PostScore
  /\ JsonLoads(task[i].response).ok
  /\ JsonLoads(task[i].response).type = "dict"

\* the members of an object other than k, in their order
Without(d, k) == SelectSeq(d, LAMBDA m : m.k # k)

\* the timestamps handed out so far
Stamps == {Timestamp(n) : n \in 1..clock}

C10_ResultState ==
  /\ \A i \in Tasks :
       Scored(i) =>
         LET sent == JsonLoads(task[i].response).dict
             got == JsonLoads(task[i].result)
         IN /\ got.ok /\ got.type = "dict"
            /\ Get(got.dict, "evaluation_timestamp") \in Stamps
            /\ Without(got.dict, "evaluation_timestamp") = Without(sent, "evaluation_timestamp")
            /\ Keys(got.dict) = Keys(sent) \cup {"evaluation_timestamp"}
  /\ \A i, j \in Tasks :
       (Scored(i) /\ Scored(j) /\ task[i].response = task[j].response) =>
         Without(JsonLoads(task[i].result).dict, "evaluation_timestamp")
           = Without(JsonLoads(task[j].result).dict, "evaluation_timestamp")
  /\ \A i \in Tasks :
       (FutureDone(i) /\ tstate[i] = "SUCCEEDED" /\ use_structured_output
          /\ future[i].value.kind = "object") =>
         Get(JsonLoads(future[i].value).dict, "evaluation_timestamp") \in Stamps

C10_ResultStep ==
  \A i \in Tasks :
    (Scored(i) /\ tstate'[i] = "SUCCEEDED") => future'[i].value = task[i].result

\* C10: on the structured path the result of a response that is a JSON object
\* is that object with evaluation_timestamp set to the completion time, a
\* value that is not null, and with every other member as it was and where it
\* was; two results of the same response differ in nothing but that member;
\* and a task that ends SUCCEEDED returns this one result.
C10_OnlyTimestampAdded ==
  []C10_ResultState /\ [][C10_ResultStep]_vars

\* two tasks hold the results of the same response, a response that had a
\* timestamp of its own, and the results differ
C10_SameResponseTwice ==
  /\ total_count = 2
  /\ Scored(1) /\ Scored(2)
  /\ task[1].response = RespRepeated
  /\ task[2].response = RespRepeated
  /\ task[1].result # task[2].result

(***************************************************************************)
(* Properties of the fallbacks and of the remote resources                 *)
(***************************************************************************)
\* task i is past the scoring of a structured response that did not parse
ParseFailed(i) ==
  /\ use_structured_output
  /\ task[i].pc \in {"delete_resume", "delete_jd"}
  /\ ~JsonLoads(task[i].response).ok

\* C11: when the structured response does not parse as JSON the task goes on
\* with the raw text as its result and, a user identifier having been
\* supplied and the file and cache records written, the store holds an
\* analysis record of this task's cache that carries the raw text.
C11_RawTextPersisted ==
  \A i \in Tasks :
    ParseFailed(i) =>
      /\ task[i].result = task[i].response
      /\ CanSaveResult(task[i]) =>
           \E n \in 1..Len(store.data.analysis_results) :
             store.data.analysis_results[n].cache_id = task[i].cache_id

\* text is put together from pieces one of which is piece
Contains(text, piece) == \E n \in 1..Len(text.body) : text.body[n] = piece

\* the extension of path, whatever its case, is neither .pdf nor .docx
IsUnsupported(path) ==
  path.suffix \notin {".pdf", ".PDF", ".docx", ".DOCX"}

\* C12: for a resume path whose extension is neither .pdf nor .docx no upload
\* is ever attempted and nothing escapes the task, and the entry of the
\* returned map for that path is an error string that contains
\* "Unsupported file type".
C12_UnsupportedRejected ==
  \A i \in Tasks :
    IsUnsupported(resume_file_paths[i]) =>
      /\ task[i].pc \in {"queued", "prepare", "callbacks", "in_callback", "exit"}
      /\ \A d \in Docs : ~WasUploaded(i, d)
      /\ FutureDone(i) => future[i].kind = "result"
      /\ Returned =>
           /\ StartsWith(results[resume_file_paths[i]], "Error: ")
           /\ Contains(results[resume_file_paths[i]], "Unsupported file type")

\* the remote caches made of the two documents of task i
CachesOf(i) ==
  {c \in remoteCaches : c.contents = <<Handle(i, "jd"), Handle(i, "resume")>>}

\* task i has its cache and has not yet returned
HoldsCache(i) ==
  task[i].pc \in {"save_cache", "commit_cache", "score"} \cup PostScore

C13_CacheState ==
  /\ \A c \in remoteCaches : \E i \in Tasks : c \in CachesOf(i)
  /\ \A i \in Tasks :
       /\ Cardinality(CachesOf(i)) <= 1
       /\ HoldsCache(i) => \E c \in CachesOf(i) : c.name = task[i].cache
       /\ \A j \in Tasks :
            (i # j /\ HoldsCache(i)) => \A c \in CachesOf(j) : c.name # task[i].cache

C13_CacheStep ==
  /\ remoteCaches \subseteq remoteCaches'
  /\ Cardinality(remoteCaches' \ remoteCaches) <= 1
  /\ \A i \in Tasks :
       /\ (task[i].pc \in PostScore \cup {"callbacks", "in_callback", "exit"}) =>
            task'[i].pc \notin {"create_cache", "save_cache", "commit_cache", "score"}
       /\ (task[i].pc \in {"save_cache", "commit_cache", "score"}) =>
            task'[i].pc # "create_cache"
       /\ (task[i].pc = "score" /\ task'[i].pc # "score") =>
            \E c \in CachesOf(i) : c.name = task[i].cache

\* C13: a task creates at most one cache, made of its own two documents, and
\* scores at most once, with the cache it created: it never goes back to the
\* cache creation or to the scoring call, and the cache its scoring call names
\* is never the cache of another task.
C13_OneCacheOneScoring ==
  []C13_CacheState /\ [][C13_CacheStep]_vars

\* the second task has scored with its cache while the first task is about to
\* score with its own
C13_TwoCachesInUse ==
  /\ total_count = 2
  /\ task[1].pc = "score"
  /\ task[2].pc \in PostScore
  /\ Cardinality(remoteCaches) = 2
  /\ task[1].cache # task[2].cache

\* C14: when a task that created a cache has finished, the cache is no longer
\* at the remote service.
C14_CacheReleased ==
  \A i \in Tasks : Terminal(i) => CachesOf(i) = {}

(***************************************************************************)
(* The orchestrator when something does escape a task                      *)
(***************************************************************************)
\* The print at the head of process_resume raises (a file name the console
\* cannot encode, a closed stdout) and so does the print of the handler that
\* caught it: the exception leaves process_resume and the worker stores it in
\* the future.
PrintRaises(i) ==
  /\ task[i].pc = "prepare"
  /\ SetFuture(i, FutureException("PrintError"), "FAILED")
  /\ UNCHANGED <<taskFrame, remoteVars, store>>

NextEscape == Next \/ \E i \in Tasks : PrintRaises(i)

\* the batches of LiveSpec, with tasks that an exception may leave
SpecEscape == InitLive /\ [][NextEscape]_vars

\* future f holds an exception and is collected in this step
CollectsException(f) ==
  /\ f \in collected' \ collected
  /\ future[f].kind = "exception"

C15_CollectStep ==
  \A f \in Tasks :
    CollectsException(f) =>
      /\ DOMAIN results' = DOMAIN results \cup {resume_file_paths[f]}
      /\ results'[resume_file_paths[f]] = Plain(<<"Unexpected error: ", future[f].value.body[1]>>)
      /\ \A k \in DOMAIN results \ {resume_file_paths[f]} : results'[k] = results[k]
      /\ mainPc' = IF collected' = Tasks THEN "shutdown" ELSE "collect"

C15_CollectState ==
  /\ \A f \in collected : resume_file_paths[f] \in DOMAIN results
  /\ Returned => collected = Tasks

\* C15: when the future the orchestrator collects holds an exception,
\* "Unexpected error: <message>" is recorded under the resume path the future
\* was submitted with, the other entries are left as they are, and the loop
\* goes on until every future is collected and the map is returned.
C15_UnexpectedRecorded ==
  []C15_CollectState /\ [][C15_CollectStep]_vars

\* a batch of two has returned: the first task let an exception go and has
\* its "Unexpected error" entry, the second was scored
C15_EscapedAndScored ==
  /\ Returned
  /\ total_count = 2
  /\ future[1].kind = "exception"
  /\ results[resume_file_paths[1]] = Plain(<<"Unexpected error: ", "PrintError">>)
  /\ tstate[2] = "SUCCEEDED"
  /\ results[resume_file_paths[2]].kind = "object"

(***************************************************************************)
(* Properties of the cleanup and of the store                              *)
(***************************************************************************)
\* in this step task i calls client.files.delete on document d and the call
\* raises: the document stays at the remote service
DeleteRaises(i, d) ==
  /\ d \in deleteCalls'[i] \ deleteCalls[i]
  /\ Handle(i, d) \in remoteFiles'

\* C16: a delete call that raises after the scoring is not propagated: the
\* task ends SUCCEEDED and returns the pair of its resume path and the result
\* it had obtained, not an error entry.
C16_CleanupFailureSwallowed ==
  [][\A i \in Tasks : \A d \in Docs :
       DeleteRaises(i, d) =>
         /\ task[i].pc \in {"delete_resume", "delete_jd"}
         /\ tstate'[i] = "SUCCEEDED"
         /\ future'[i] = FutureResult(resume_file_paths[i], task[i].result)
         /\ ~StartsWith(future'[i].value, "Error: ")]_vars

\* a task has returned its scored object although the delete of the resume
\* raised
C16_ReturnedAfterFailedDelete ==
  \E i \in Tasks :
    /\ tstate[i] = "SUCCEEDED"
    /\ future[i].value.kind = "object"
    /\ "resume" \in deleteCalls[i]
    /\ Handle(i, "resume") \in remoteFiles

\* the store as it is before the first request
StoreUntouched == store = [exists |-> FALSE, data |-> EmptyUserData]

\* the files list holds a record of document d of task i
HasFileRecord(files, i, d) ==
  \E n \in 1..Len(files) :
    /\ files[n].gemini_file_id = Handle(i, d)
    /\ files[n].filename = IF d = "resume" THEN resume_file_paths[i] ELSE jd_file_path

\* with a user identifier: an upload that succeeded is followed by
\* save_file_record, and save_file_record returns only with the record written
C17_UploadStep ==
  \A i \in Tasks : \A d \in Docs :
    /\ Truthy(username) /\ Handle(i, d) \in remoteFiles' \ remoteFiles
         => task'[i].pc = "save_file" /\ task'[i].doc = d
    /\ task[i].pc = "save_file" /\ task'[i] # task[i]
         => task'[i].pc = "commit_file" \/ tstate'[i] = "FAILED"
    /\ task[i].pc = "commit_file" /\ task[i].doc = d /\ task'[i] # task[i]
         => \/ tstate'[i] = "FAILED" /\ store' = store
            \/ /\ HasFileRecord(store'.data.files, i, d)
               /\ Len(store'.data.files) = Len(task[i].user_data.files) + 1
               /\ task'[i].pc \in {"upload", "wait"}

\* C17: without a user identifier a whole batch leaves the store as it was
\* (no user row, no file, cache or analysis record); with one, every upload
\* that succeeded gets its file record written.
C17_StoreOnlyForUsers ==
  /\ [](~Truthy(username) => StoreUntouched)
  /\ [][C17_UploadStep]_vars

\* a task of a user has ended with both of its file records in the store
C17_BothFilesRecorded ==
  /\ Truthy(username)
  /\ \E i \in Tasks :
       /\ tstate[i] = "SUCCEEDED"
       /\ HasFileRecord(store.data.files, i, "resume")
       /\ HasFileRecord(store.data.files, i, "jd")

\* a batch of two without a user identifier has been scored and returned
C17_AnonymousBatchReturned ==
  /\ ~Truthy(username)
  /\ Returned
  /\ \A i \in 1..MaxResumes : i \in Tasks /\ tstate[i] = "SUCCEEDED"

(***************************************************************************)
(* Two tasks of one user: a batch of MaxResumes resumes with a user        *)
(* identifier, on as many workers, where no call raises.  Its behaviours   *)
(* are behaviours of the program.                                          *)
(***************************************************************************)
InitStore ==
  /\ Init
  /\ total_count = MaxResumes
  /\ Truthy(username)
  /\ use_structured_output
  /\ max_workers = MaxWorkersArg
  /\ SupportedFileType(jd_file_path)
  /\ \A i \in Tasks :
       resume_file_paths[i] = IF i = 1 THEN Path("a", ".pdf") ELSE Path("b", ".DOCX")

NextStore ==
  \/ Submit
  \/ AddCallback
  \/ AddCallbackEnter
  \/ AddCallbackExit
  \/ \E f \in Tasks : Collect(f)
  \/ ReturnResults
  \/ \E i \in Tasks : StartTask(i)
  \/ \E i \in Tasks : Prepare(i)
  \/ \E i \in Tasks : UploadOk(i)
  \/ \E i \in Tasks : SaveRead(i)
  \/ \E i \in Tasks : SaveCommit(i)
  \/ \E i \in Tasks : WaitExit(i)
  \/ \E i \in Tasks : PollLeft(i)
  \/ \E i \in Tasks : CreateCache(i)
  \/ \E i \in Tasks : ScoreStructured(i)
  \/ \E i \in Tasks : DeleteResume(i)
  \/ \E i \in Tasks : DeleteJd(i)
  \/ \E i \in Tasks : WorkerCallbackEnter(i)
  \/ \E i \in Tasks : WorkerCallbackExit(i)
  \/ \E i \in Tasks : WorkerNoCallback(i)

SpecStore == InitStore /\ [][NextStore]_vars

\* list `now` is list `before` with zero or more records appended
Extends(before, now) ==
  /\ Len(before) <= Len(now)
  /\ \A n \in 1..Len(before) : now[n] = before[n]

\* C18: the lists files, caches and analysis_results of the user record are
\* append-only under every interleaving of the tasks of a batch: each step
\* leaves every list an extension of what it was.
C18_AppendOnly ==
  [][/\ Extends(store.data.files, store'.data.files)
     /\ Extends(store.data.caches, store'.data.caches)
     /\ Extends(store.data.analysis_results, store'.data.analysis_results)]_vars

(***************************************************************************)
(* The route handlers up to the call of the orchestrator                   *)
(***************************************************************************)
InitExtract ==
  /\ InitHandler
  /\ store = [exists |-> FALSE, data |-> EmptyUserData]
  /\ request \in {BulkRequest(zip) : zip \in Zips}
                 \cup {SingleRequest(resume) : resume \in {"cv.pdf", "cv.DOCX"}}

NextExtract ==
  \/ BulkUpload
  \/ UploadSingle

SpecExtract == InitExtract /\ [][NextExtract]_vars

\* the bulk handler has built its candidates and called the orchestrator
BulkCalled == request.route = "bulk" /\ routePc # "request"

\* a member name whose last component ends in .pdf, whatever the case
PdfEntry(name) ==
  LET file == Basename(name)
  IN Len(file) >= 4 /\ StrLower(SubSeq(file, Len(file) - 3, Len(file))) = ".pdf"

\* the positions of the zip that hold such a member
PdfPositions == {n \in 1..Len(request.resumes_zip) : PdfEntry(request.resumes_zip[n])}
\* the names of those members
PdfNames == {request.resumes_zip[n] : n \in PdfPositions}

PairwiseDistinct(seq) == \A m, n \in 1..Len(seq) : m # n => seq[m] # seq[n]

InitRoute ==
  /\ InitHandler
  /\ store = [exists |-> FALSE, data |-> EmptyUserData]
  /\ request \in {BulkRequest(<<"r1.pdf", "notes.txt", "sub/r2.PDF">>),
                  BulkRequest(<<"notes.txt">>),
                  SingleRequest("cv.pdf")}

NextRoute ==
  \/ BulkUpload
  \/ UploadSingle
  \/ Respond
  \/ Submit
  \/ EmptyBatch
  \/ AddCallback
  \/ AddCallbackEnter
  \/ AddCallbackExit
  \/ \E f \in Tasks : Collect(f)
  \/ ReturnResults
  \/ \E i \in Tasks : StartTask(i)
  \/ \E i \in Tasks : Prepare(i)
  \/ \E i \in Tasks : UploadOk(i)
  \/ \E i \in Tasks : SaveRead(i)
  \/ \E i \in Tasks : SaveCommit(i)
  \/ \E i \in Tasks : WaitExit(i)
  \/ \E i \in Tasks : PollLeft(i)
  \/ \E i \in Tasks : CreateCache(i)
  \/ \E i \in Tasks : ScoreStructured(i)
  \/ \E i \in Tasks : DeleteResume(i)
  \/ \E i \in Tasks : DeleteJd(i)
  \/ \E i \in Tasks : WorkerCallbackEnter(i)
  \/ \E i \in Tasks : WorkerCallbackExit(i)
  \/ \E i \in Tasks : WorkerNoCallback(i)

SpecRoute == InitRoute /\ [][NextRoute]_vars

\* the element is the one the handler must return for this item of the map
ElementFor(element, key, value) ==
  /\ OsPathJoin("uploads", element.resume_file) = PathStr(key)
  /\ LastIndexOf(element.resume_file, "/", Len(element.resume_file)) = 0
  /\ IF value.kind \in {"object", "array"}
     THEN element.analysis = [type |-> JsonLoads(value).type, dict |-> JsonLoads(value).dict]
     ELSE element.analysis = value

IsParsed(analysis) == "type" \in DOMAIN analysis

\* C20: the response of an upload endpoint lists exactly one element per
\* entry of the orchestrator's map (exactly one for /upload/), each with the
\* basename of the key as resume_file and, as analysis, the parsed value when
\* the value is JSON and the unchanged string otherwise, whether the items
\* were scored or failed.
C20_OneElementPerEntry ==
  routePc = "responded" =>
    /\ Len(response) = Cardinality(DOMAIN results)
    /\ \E key \in [1..Len(response) -> DOMAIN results] :
         /\ \A m, n \in 1..Len(response) : m # n => key[m] # key[n]
         /\ \A k \in 1..Len(response) : ElementFor(response[k], key[k], results[key[k]])
    /\ request.route = "single" => Len(response) = 1

\* a bulk response that mixes a scored entry and an errored one
C20_MixedResponse ==
  /\ routePc = "responded"
  /\ request.route = "bulk"
  /\ \E m, n \in 1..Len(response) :
       /\ IsParsed(response[m].analysis)
       /\ ~IsParsed(response[n].analysis)
       /\ StartsWith(response[n].analysis, "Error: ")

(***************************************************************************)
(* GET /results/{user_uuid} on the rows the save paths write               *)
(***************************************************************************)
InitResults ==
  /\ InitHandler
  /\ store \in StoredRows(WrittenTexts)
  /\ request \in {ResultsRequest(user_uuid) : user_uuid \in {StoreOwner, "u2"}}

NextResults ==
  \/ GetUserResults
  \/ GetUserResultsStoreFail

SpecResults == InitResults /\ [][NextResults]_vars

Answered == request.route = "results" /\ routePc = "responded"
NoRecordOrEmpty ==
  ~(request.user_uuid = StoreOwner /\ store.exists) \/ store.data.analysis_results = <<>>

\* the answer of a request whose read of the store raised
StoreUnreadable ==
  response.status = 500 /\ response.detail = "Internal server error: StoreError"

\* the element answers the stored record: same id, the fields of its object
AnswersRecord(element, record) ==
  /\ element.analysis_id = record.id
  /\ "error" \notin DOMAIN element
  /\ element.overall_fit_score = record.score
  /\ element.recommendation = record.recommendation

InitResultsAny ==
  /\ InitHandler
  /\ store \in StoredRows(StoredTexts)
  /\ request \in {ResultsRequest(user_uuid) : user_uuid \in {StoreOwner, "u2"}}

SpecResultsAny == InitResultsAny /\ [][NextResults]_vars

\* result_json is no analysis object: malformed JSON, or JSON that is no object
Uninterpretable(record) == record.result_json.kind # "object"

\* C22: a stored result whose result_json cannot be interpreted as an
\* analysis object degrades to {analysis_id, error: "Failed to parse analysis
\* data"} while the other elements are returned normally; the request as a
\* whole does not fail because of it.
C22_ItemDegrades ==
  (Answered /\ ~StoreUnreadable /\ ~NoRecordOrEmpty) =>
    /\ response.status = 200
    /\ Len(response.analyses) = Len(store.data.analysis_results)
    /\ \A n \in 1..Len(response.analyses) :
         IF Uninterpretable(store.data.analysis_results[n])
         THEN response.analyses[n] =
                [analysis_id |-> store.data.analysis_results[n].id,
                 error |-> "Failed to parse analysis data"]
         ELSE AnswersRecord(response.analyses[n], store.data.analysis_results[n])

\* the same for malformed JSON text alone
C22_MalformedDegrades ==
  (Answered /\ ~StoreUnreadable /\ ~NoRecordOrEmpty
     /\ \A n \in 1..Len(store.data.analysis_results) :
          store.data.analysis_results[n].result_json.kind # "array") =>
    C22_ItemDegrades

(***************************************************************************)
(* The order of the steps of one task                                      *)
(***************************************************************************)
HasCache(i) == \E c \in remoteCaches : c.name = i
BothUploaded(i) == \A d \in Docs : Handle(i, d) \in remoteFiles
LeftProcessing(state) == state \in FileStates \ {"PROCESSING"}

C23_StepOrder ==
  \A i \in Tasks :
    \* an upload: before any wait, cache or scoring; the resume first
    /\ \A d \in Docs : Handle(i, d) \in remoteFiles' \ remoteFiles =>
         /\ task[i].pc = "upload"
         /\ ~HasCache(i)
         /\ d = "jd" => Handle(i, "resume") \in remoteFiles
    \* a poll or the end of a wait loop: both documents are uploaded
    /\ (task[i].pc = "wait" /\ task'[i] # task[i]) => BothUploaded(i) /\ ~HasCache(i)
    \* the cache is created: both handles have left PROCESSING
    /\ (\E c \in remoteCaches' \ remoteCaches : c.name = i) =>
         /\ BothUploaded(i)
         /\ LeftProcessing(task[i].resume_uploaded)
         /\ LeftProcessing(task[i].jd_uploaded)
         /\ task[i].result = NoText
    \* the scoring call: the cache exists
    /\ (task[i].pc = "score" /\ task'[i] # task[i]) => HasCache(i) /\ deleteCalls[i] = {}
    \* a delete call: the scoring call has returned
    /\ deleteCalls'[i] # deleteCalls[i] =>
         /\ task[i].pc \in {"delete_resume", "delete_jd"}
         /\ task[i].result # NoText
         /\ HasCache(i)

\* C23: within one task the steps happen in the order upload (both
\* documents), wait-ready (both handles), cache creation, scoring, cleanup:
\* no cache before both handles left PROCESSING, no scoring before the cache
\* exists, no delete before the scoring call returned.
C23_StrictlySequential == [][C23_StepOrder]_vars

\* a task has gone through every step and is deleting its second handle
C23_AllStepsTaken ==
  \E i \in Tasks :
    /\ task[i].pc = "delete_jd"
    /\ "resume" \in deleteCalls[i]
    /\ HasCache(i)
    /\ task[i].result # NoText

(***************************************************************************)
(* What a cache holds                                                      *)
(***************************************************************************)
\* C24: every cache that is created pairs exactly two uploaded document
\* handles, the JD and the resume of its pair; none is created with fewer
\* than two documents, also when an upload failed.
C24_CachePairsTwo ==
  \A c \in remoteCaches :
    /\ Len(c.contents) = 2
    /\ c.contents = <<Handle(c.name, "jd"), Handle(c.name, "resume")>>
    /\ \A n \in 1..Len(c.contents) : \E i \in Tasks : \E d \in Docs : c.contents[n] = Handle(i, d)

(***************************************************************************)
(* Overlapping saves of two tasks of one user                              *)
(***************************************************************************)
ListNames == {"files", "caches", "analysis_results"}
ListOf(pc) ==
  CASE pc = "commit_file" -> "files"
    [] pc = "commit_cache" -> "caches"
    [] OTHER -> "analysis_results"

Records(list) == {list[n] : n \in 1..Len(list)}

\* record r of the list named l was written by task i
WrittenBy(r, l, i) ==
  CASE l = "files" -> r.gemini_file_id.task = i
    [] l = "caches" -> r.cache_name = i
    [] OTHER -> r.result_json = task[i].result_json

\* task i is between the SELECT and the UPDATE of a save
Saving(i) == task[i].pc \in CommitPcs

C25_SaveStep ==
  \A i \in Tasks :
    \* the SELECT: the task holds the blob as it is stored now
    /\ (task[i].pc \in SavePcs /\ task'[i].pc \in CommitPcs) => task'[i].user_data = store.data
    \* the UPDATE: the row becomes the blob this task read, plus its one record
    /\ (Saving(i) /\ ~Saving(i)') =>
         LET l == ListOf(task[i].pc)
             read == task[i].user_data
         IN /\ \A k \in ListNames \ {l} : store'.data[k] = read[k]
            /\ Len(store'.data[l]) = Len(read[l]) + 1
            /\ SubSeq(store'.data[l], 1, Len(read[l])) = read[l]
            /\ WrittenBy(store'.data[l][Len(read[l]) + 1], l, i)
            \* what another task committed since the read is gone
            /\ \A k \in ListNames :
                 \A r \in Records(store.data[k]) \ Records(read[k]) :
                   r \notin Records(store'.data[k]) \/ (k = l /\ WrittenBy(r, l, i))

\* C25: when two tasks of one user overlap in a save, the row after both
\* commits is the blob of the later committer: it holds the later writer's
\* record, and the earlier writer's record only if the later writer read
\* after the earlier writer committed.
C25_LastWriteWins == [][C25_SaveStep]_vars

\* save_file_record returned an id to a task, and the record of that
\* upload is not in the store
C25_ReturnedIdRecordAbsent ==
  \E i \in Tasks :
    /\ task[i].resume_db_file_id # 0
    /\ \A r \in Records(store.data.files) : r.gemini_file_id # Handle(i, "resume")

(***************************************************************************)
(* The ids an analysis record holds                                        *)
(***************************************************************************)
\* the records of a list that carry the id
WithId(list, id) == {r \in Records(list) : r.id = id}

\* the analysis record r, written by task i, refers to the rows of task i
RefersToOwn(data, r, i) ==
  /\ \A f \in WithId(data.files, r.jd_file_id) : f.gemini_file_id = Handle(i, "jd")
  /\ WithId(data.files, r.jd_file_id) # {}
  /\ \A f \in WithId(data.files, r.resume_file_id) : f.gemini_file_id = Handle(i, "resume")
  /\ WithId(data.files, r.resume_file_id) # {}
  /\ \A c \in WithId(data.caches, r.cache_id) : c.cache_name = i
  /\ WithId(data.caches, r.cache_id) # {}

C26_ResultStep ==
  \A i \in Tasks :
    (task[i].pc = "commit_result" /\ task'[i].pc # "commit_result") =>
      LET list == store'.data.analysis_results
      IN Len(list) > 0 /\ RefersToOwn(store'.data, list[Len(list)], i)

\* C26: under any interleaving of the tasks of a batch, the analysis record
\* a task persists names by jd_file_id, resume_file_id and cache_id the file
\* records and the cache record that the same task saved.
C26_ReferencesOwnRecords == [][C26_ResultStep]_vars

(***************************************************************************)
(* The ids of the records of a list                                        *)
(***************************************************************************)
RECURSIVE MaxId(_)
MaxId(list) ==
  IF list = <<>> THEN 0
  ELSE LET rest == MaxId(Tail(list))
       IN IF Head(list).id > rest THEN Head(list).id ELSE rest

StrictlyIncreasing(list) ==
  \A m, n \in 1..Len(list) : m < n => list[m].id < list[n].id

\* every stored list has strictly increasing ids
C27_IdsIncrease ==
  \A l \in ListNames : StrictlyIncreasing(store.data[l])

\* the UPDATE of a save appends a record whose id is the largest id of the
\* list the save read, plus one
C27_IdRuleStep ==
  \A i \in Tasks :
    (Saving(i) /\ ~Saving(i)') =>
      LET l == ListOf(task[i].pc)
          new == store'.data[l][Len(store'.data[l])]
      IN new.id = MaxId(task[i].user_data[l]) + 1

\* the id of the record a save appends is not the id of a record the
\* stored list holds already
C27_NoReuseStep ==
  \A i \in Tasks :
    (Saving(i) /\ ~Saving(i)') =>
      LET l == ListOf(task[i].pc)
          new == store'.data[l][Len(store'.data[l])]
      IN WithId(store.data[l], new.id) = {}

C27_IdRule == []C27_IdsIncrease /\ [][C27_IdRuleStep]_vars

\* C27: a record appended to a list of a user record gets the largest id of
\* that list plus one (1 for an empty list); no id is given twice, and the
\* ids of a list strictly increase in append order.
C27_SequentialIds ==
  []C27_IdsIncrease /\ [][C27_IdRuleStep /\ C27_NoReuseStep]_vars

(***************************************************************************)
(* save_analysis_result(user_id, cache_id, jd_file_id, resume_file_id,     *)
(* result_json) called with any text; the call's locals are task[1].       *)
(***************************************************************************)
\* the texts a caller can pass as result_json
ResultTexts == WrittenTexts \cup {RespScored, RespRepeated, ArrayText, RespNotJson}

\* except psycopg2.Error: rollback and raise
SaveResultRaise(i) ==
  /\ task[i].pc \in {"save_result", "commit_result"}
  /\ task' = [task EXCEPT ![i].pc = "store_error", ![i].user_data = EmptyUserData]
  /\ UNCHANGED <<taskFrame, running, remoteVars, store>>

InitSaveResult ==
  /\ jd_file_path = Path("jd", ".pdf")
  /\ resume_file_paths = <<Path("a", ".pdf")>>
  /\ username = StoreOwner
  /\ use_structured_output = TRUE
  /\ max_workers = 1
  /\ mainPc = "save_analysis_result"
  /\ mainIdx = 1
  /\ done_callbacks = {}
  /\ collected = {}
  /\ results = << >>
  /\ completed_count = 0
  /\ progress_lock = NoThread
  /\ loaded = [th \in Threads |-> 0]
  /\ tstate = [i \in Tasks |-> "RUNNING"]
  /\ \E text \in ResultTexts :
       task = [i \in Tasks |-> [NewTask EXCEPT !.pc = "save_result", !.result_json = text,
                                               !.cache_id = 1, !.jd_db_file_id = 2,
                                               !.resume_db_file_id = 1]]
  /\ future = [i \in Tasks |-> PendingFuture]
  /\ remoteFiles = {}
  /\ remoteCaches = {}
  /\ stuckDocs = {}
  /\ store \in {row \in StoredRows(WrittenTexts) : row.exists}
  /\ deleteCalls = [i \in Tasks |-> {}]
  /\ clock = 0
  /\ request = NoRequest
  /\ routePc = "direct"
  /\ response = <<>>
  /\ handlers = << >>
  /\ uploads = << >>
  /\ batch = NoBatch

NextSaveResult ==
  \/ \E i \in Tasks : SaveRead(i)
  \/ \E i \in Tasks : SaveCommit(i)
  \/ \E i \in Tasks : SaveResultRaise(i)

SpecSaveResult == InitSaveResult /\ [][NextSaveResult]_vars

\* the value a JSON object text gives a key: its last member of that name
LastValue(members, key) ==
  LET at == {n \in 1..Len(members) : members[n].k = key}
  IN IF at = {} THEN "null"
     ELSE members[CHOOSE n \in at : \A m \in at : m <= n].v

LastRecord(list) == list[Len(list)]

C28_SaveStep ==
  \A i \in Tasks :
    (task[i].pc = "commit_result" /\ task'[i].pc = "delete_resume") =>
      LET text == task[i].result_json
          new == LastRecord(store'.data.analysis_results)
      IN /\ Len(store'.data.analysis_results) = Len(store.data.analysis_results) + 1
         /\ new.result_json = text
         /\ IF text.kind = "object"
            THEN /\ new.score = LastValue(text.members, "overall_fit_score")
                 /\ new.recommendation = LastValue(text.members, "recommendation")
            ELSE new.score = "null" /\ new.recommendation = "null"

\* whatever the text, the save can read and can write
C28_ContentNeverBlocks ==
  \A i \in Tasks :
    /\ task[i].pc = "save_result" => ENABLED SaveRead(i)
    /\ task[i].pc = "commit_result" => ENABLED SaveCommit(i)

\* C28: save_analysis_result stores result_json unchanged, with score and
\* recommendation equal to the result's overall_fit_score and recommendation
\* when result_json is a JSON object, and both null when it is another JSON
\* value or does not parse; no content of result_json makes the save fail.
C28_ScoreExtracted == []C28_ContentNeverBlocks /\ [][C28_SaveStep]_vars

\* a text that does not parse was saved, with score null
C28_UnparsableSaved ==
  \E i \in Tasks :
    /\ task[i].pc = "delete_resume"
    /\ task[i].result_json = RespNotJson
    /\ LastRecord(store.data.analysis_results).result_json = RespNotJson
    /\ LastRecord(store.data.analysis_results).score = "null"

(***************************************************************************)
(* The returned map and the order of completion                            *)
(***************************************************************************)
DistinctPaths ==
  \A i, j \in Tasks : i # j => resume_file_paths[i] # resume_file_paths[j]

\* what the outcome of task i alone puts under its path
OutcomeValue(i) ==
  IF future[i].kind = "result" THEN future[i].value
  ELSE Plain(<<"Unexpected error: ", future[i].value.body[1]>>)

\* C29: for distinct resume paths the map is a function of the outcomes of
\* the tasks alone: after any order of completions and collections it holds
\* the paths of the collected tasks, each with the outcome of its own task,
\* so the returned map has the same keys and values in every interleaving.
C29_OrderIndependent ==
  DistinctPaths =>
    /\ DOMAIN results = {resume_file_paths[i] : i \in collected}
    /\ \A i \in collected : results[resume_file_paths[i]] = OutcomeValue(i)
    /\ Returned => collected = Tasks

\* the second task's future was collected before the first's
C29_CollectedOutOfOrder ==
  /\ total_count = 2
  /\ DistinctPaths
  /\ collected = {2}
  /\ DOMAIN results = {resume_file_paths[2]}

(***************************************************************************)
(* Which thread writes what                                                *)
(***************************************************************************)
\* the step is one of worker i: its process_resume call or its callback
\* moved (executor.submit, which binds the arguments, is the orchestrator's)
WorkerStep(i) == tstate[i] # "NEW" /\ task'[i] # task[i]

\* the thread leaving update_progress in this step
Writer ==
  IF mainPc = "in_callback" /\ mainPc' # "in_callback" THEN {MainThread}
  ELSE {i \in Tasks : task[i].pc = "in_callback" /\ task'[i].pc # "in_callback"}

C30_WriteStep ==
  \* the output map: written by the orchestrating thread when it collects
  /\ results' # results =>
       /\ mainPc = "collect"
       /\ \A i \in Tasks : ~WorkerStep(i)
  \* one insertion for each future that as_completed yields
  /\ collected' # collected =>
       \E f \in Tasks \ collected :
         /\ FutureDone(f)
         /\ collected' = collected \cup {f}
         /\ resume_file_paths[f] \in DOMAIN results'
         /\ \A k \in DOMAIN results' \ {resume_file_paths[f]} :
              k \in DOMAIN results /\ results'[k] = results[k]
  \* a worker writes none of the orchestrator's variables but the counter,
  \* and nothing of another worker
  /\ \A i \in Tasks :
       WorkerStep(i) =>
         /\ UNCHANGED <<mainPc, mainIdx, done_callbacks, collected, results>>
         /\ \A j \in Tasks \ {i} : task'[j] = task[j] /\ future'[j] = future[j]
  \* the counter: written by the holder of the lock
  /\ completed_count' # completed_count =>
       /\ progress_lock # NoThread
       /\ Writer = {progress_lock}

\* C30: only the orchestrating thread writes the output map, once for each
\* completed future; workers never insert into it; the one variable that
\* several threads write is the progress counter, and each write to it is
\* made by the thread that holds the progress lock.
C30_SingleWriter == [][C30_WriteStep]_vars

\* the counter was written by a worker and by the orchestrating thread, and
\* the map holds both results
C30_BothThreadsCounted ==
  /\ total_count = 2
  /\ Returned
  /\ completed_count = 2
  /\ done_callbacks # {} /\ done_callbacks # Tasks
  /\ Cardinality(DOMAIN results) = 2

(***************************************************************************)
(* The two deletes of the cleanup                                          *)
(***************************************************************************)
\* C32: after a successful score the release of each handle is attempted on
\* its own: a task whose delete of the resume handle was called has, when it
\* ends, also called the delete of the JD handle.
C32_BothDeletesAttempted ==
  \A i \in Tasks :
    (Terminal(i) /\ "resume" \in deleteCalls[i]) => "jd" \in deleteCalls[i]

(***************************************************************************)
(* The client of a task                                                    *)
(***************************************************************************)
\* task i is inside process_resume
InProcessResume(i) == tstate[i] = "RUNNING"

C31_ClientState ==
  \A i \in Tasks :
    InProcessResume(i) =>
      /\ task[i].client # 0
      /\ \A j \in Tasks \ {i} : task[j].client # task[i].client

\* from its construction to the end of the call the local names one client
C31_ClientStep ==
  \A i \in Tasks :
    (InProcessResume(i) /\ InProcessResume(i)') => task'[i].client = task[i].client

\* C31: every process_resume call constructs a client of its own and makes
\* all its uploads, polls, cache creation, scoring and deletes with it; no
\* client is the client of two tasks.
C31_OwnClient == []C31_ClientState /\ [][C31_ClientStep]_vars

\* two tasks are at remote calls at the same time, each with its client
C31_TwoClientsInUse ==
  /\ total_count = 2
  /\ task[1].pc = "score"
  /\ task[2].pc = "upload"
  /\ task[1].client # 0 /\ task[2].client # 0
  /\ task[1].client # task[2].client

(***************************************************************************)
(* The order of the saves of one task                                      *)
(***************************************************************************)
\* the row of the user, written by the one task of the batch
C33_SavedInOrder ==
  /\ Len(store.data.files) <= 2
  /\ Len(store.data.caches) <= 1
  /\ Len(store.data.analysis_results) <= 1
  /\ Len(store.data.caches) = 1 => Len(store.data.files) = 2
  /\ Len(store.data.analysis_results) = 1 => Len(store.data.caches) = 1

\* what a task holds when one of its saves writes
C33_SaveStep ==
  \A i \in Tasks :
    (Saving(i) /\ ~Saving(i)' /\ tstate'[i] = "RUNNING") =>
      /\ Truthy(username)
      /\ task[i].pc = "commit_cache" =>
           /\ task[i].resume_db_file_id # 0 /\ task[i].jd_db_file_id # 0
           /\ store'.data.analysis_results = <<>>
      /\ task[i].pc = "commit_result" =>
           /\ task[i].cache_id # 0
           /\ \E c \in Records(store.data.caches) : c.cache_name = i

\* C33: a task persists its file records, then its cache record, then its
\* analysis record: the cache record only when both uploads returned a
\* file-record id, the analysis record only when the task saved a cache
\* record; at most two file records, one cache record, one analysis record.
C33_PersistOrder == []C33_SavedInOrder /\ [][C33_SaveStep]_vars

\* the task saved all four records
C33_AllFourSaved ==
  /\ total_count = 1
  /\ Len(store.data.files) = 2
  /\ Len(store.data.caches) = 1
  /\ Len(store.data.analysis_results) = 1
  /\ Terminal(1)

(***************************************************************************)
(* The ids of a stored list under overlapping saves                        *)
(***************************************************************************)
\* C34: in every state of the store, whatever the interleaving of the saves
\* of the tasks of one user, the ids of each list of the user's row are
\* pairwise distinct and are 1..n in list order, n the length of the list.
C34_IdsAreOneToN ==
  \A l \in ListNames :
    /\ \A n \in 1..Len(store.data[l]) : store.data[l][n].id = n
    /\ \A m, n \in 1..Len(store.data[l]) :
         m # n => store.data[l][m].id # store.data[l][n].id

\* two saves overlapped: a record of a task was overwritten, and the files
\* list holds records of both tasks
C34_OverlappedAndTwoStored ==
  /\ \E i \in Tasks :
       /\ task[i].jd_db_file_id # 0
       /\ \A r \in Records(store.data.files) : r.gemini_file_id # Handle(i, "jd")
  /\ \A i \in Tasks : \E r \in Records(store.data.files) : r.gemini_file_id.task = i

(***************************************************************************)
(* From the wait loops to the cache                                        *)
(***************************************************************************)
LeftProcessingBoth(t) ==
  t.resume_uploaded # "PROCESSING" /\ t.jd_uploaded # "PROCESSING"

C35_AtCache ==
  \A i \in Tasks :
    task[i].pc = "create_cache" => LeftProcessingBoth(task[i])

C35_WaitStep ==
  \A i \in Tasks :
    \* a loop whose document is not PROCESSING is left at once, for the next
    \* loop or for the cache creation, whatever the state is
    /\ (task[i].pc = "wait" /\ Uploaded(task[i]) # "PROCESSING" /\ task'[i] # task[i]) =>
         /\ tstate'[i] = "RUNNING"
         /\ IF task[i].doc = "resume"
            THEN task'[i].pc = "wait" /\ task'[i].doc = "jd"
            ELSE task'[i].pc = "create_cache"
         /\ task'[i].resume_uploaded = task[i].resume_uploaded
         /\ task'[i].jd_uploaded = task[i].jd_uploaded
    \* a cache creation that succeeds pairs the two handles, whatever their states
    /\ (task[i].pc = "create_cache" /\ tstate'[i] = "RUNNING" /\ task'[i] # task[i]) =>
         [name |-> i, contents |-> <<Handle(i, "jd"), Handle(i, "resume")>>] \in remoteCaches'

\* C35: a task goes from its wait loops to the cache creation as soon as
\* neither handle is PROCESSING; a handle that ended in FAILED is passed to
\* the cache creation like a ready one, its final state is not looked at.
C35_NoFinalStateCheck == []C35_AtCache /\ [][C35_WaitStep]_vars

\* a task left both wait loops and stands at the cache creation with a
\* resume handle that ended in FAILED
C35_FailedHandleAtCache ==
  \E i \in Tasks :
    /\ task[i].pc = "create_cache"
    /\ task[i].resume_uploaded = "FAILED"
    /\ task[i].jd_uploaded = "ACTIVE"
    /\ tstate[i] = "RUNNING"

(***************************************************************************)
(* The key of a task's outcome                                             *)
(***************************************************************************)
C36_CollectStep ==
  \A f \in Tasks :
    (f \notin collected /\ f \in collected') =>
      \* under the path the task was submitted with, replacing what was there
      /\ DOMAIN results' = DOMAIN results \cup {resume_file_paths[f]}
      /\ results'[resume_file_paths[f]] = OutcomeValue(f)
      /\ \A k \in DOMAIN results \ {resume_file_paths[f]} : results'[k] = results[k]

\* one key for each path of the input, however often the path occurs
C36_OneKeyPerPath ==
  /\ DOMAIN results = {resume_file_paths[i] : i \in collected}
  /\ Returned => DOMAIN results = InputPaths

\* C36: the outcome of a task is inserted under the resume path the task was
\* submitted with; tasks submitted with the same path share one key, whose
\* value is the outcome of the one collected last.
C36_KeyedBySubmittedPath == []C36_OneKeyPerPath /\ [][C36_CollectStep]_vars

\* two tasks with the same path and different outcomes returned one key
C36_SharedKeyReturned ==
  /\ total_count = 2
  /\ resume_file_paths[1] = resume_file_paths[2]
  /\ Returned
  /\ OutcomeValue(1) # OutcomeValue(2)
  /\ DOMAIN results = {resume_file_paths[1]}
  /\ results[resume_file_paths[1]] \in {OutcomeValue(1), OutcomeValue(2)}

(***************************************************************************)
(* Two upload requests served at the same time.  A handler runs on the     *)
(* event loop up to `await asyncio.to_thread(...)`; while its analysis     *)
(* runs in a thread the loop serves the other request.  Both write to the  *)
(* one folder "uploads".                                                   *)
(***************************************************************************)
\* requests in flight together
MaxRequests == 2
Requests == DOMAIN handlers

\* the requests a client can send: the JD and the resumes under its own names
UploadRequests ==
  {[BulkRequest(zip) EXCEPT !.jd = jd] :
     zip \in {<<"r1.pdf">>, <<"r1.pdf", "sub/r2.PDF">>}, jd \in {"jd.pdf", "jd_b.pdf"}}
    \cup {[SingleRequest(resume) EXCEPT !.jd = jd] :
            resume \in {"cv.pdf", "cv_b.pdf"}, jd \in {"jd.pdf", "jd_b.pdf"}}

NewHandler(req) ==
  [pc |-> "request", request |-> req, jd_filename |-> "", resume_filenames |-> <<>>,
   read |-> {}]

\* open(path, "wb") / shutil.copy2 by request r: the files exist with r's bytes
Written(folder, paths, r) ==
  [p \in DOMAIN folder \cup paths |-> IF p \in paths THEN r ELSE folder[p]]

\* resume_filenames as the handler builds it
ResumeFilenames(req) ==
  IF req.route = "bulk"
  THEN {Candidates(walk, <<>>) : walk \in Walks(ExtractAll(req.resumes_zip))}
  ELSE {<<OsPathJoin("uploads", req.resume)>>}

uploadFrame == <<callArgs, request, routePc, response, batch, mainVars, lockVars, tstate, task,
                 future, remoteVars, store, deleteCalls>>

\* the handler up to the await: the JD and the resumes are in the folder
HandlerStore(r) ==
  /\ handlers[r].pc = "request"
  /\ \E names \in ResumeFilenames(handlers[r].request) :
       LET jd_filename == OsPathJoin("uploads", handlers[r].request.jd)
       IN /\ uploads' = Written(uploads, {jd_filename} \cup {names[k] : k \in 1..Len(names)}, r)
          /\ handlers' = [handlers EXCEPT ![r].pc = "analysing",
                                          ![r].jd_filename = jd_filename,
                                          ![r].resume_filenames = names]
  /\ UNCHANGED uploadFrame

\* process_resume of resume k of request r: Path(...).read_bytes() of both files
HandlerTaskReads(r, k) ==
  /\ handlers[r].pc = "analysing"
  /\ k \in 1..Len(handlers[r].resume_filenames)
  /\ \A x \in handlers[r].read : x.task # k
  /\ handlers' = [handlers EXCEPT ![r].read = @ \cup
       {[task |-> k,
         resume |-> uploads[handlers[r].resume_filenames[k]],
         jd |-> uploads[handlers[r].jd_filename]]}]
  /\ UNCHANGED <<uploadFrame, uploads>>

\* every task has ended: the handler answers
HandlerRespond(r) ==
  /\ handlers[r].pc = "analysing"
  /\ \A k \in 1..Len(handlers[r].resume_filenames) : \E x \in handlers[r].read : x.task = k
  /\ handlers' = [handlers EXCEPT ![r].pc = "responded"]
  /\ UNCHANGED <<uploadFrame, uploads>>

InitUploads ==
  /\ OrchestratorIdle
  /\ routePc = "concurrent"
  /\ request = NoRequest
  /\ store = [exists |-> FALSE, data |-> EmptyUserData]
  /\ uploads = << >>
  /\ batch = NoBatch
  /\ handlers \in [1..MaxRequests -> {NewHandler(req) : req \in UploadRequests}]

NextUploads ==
  \/ \E r \in Requests : HandlerStore(r)
  \/ \E r \in Requests : \E k \in 1..MaxEntries : HandlerTaskReads(r, k)
  \/ \E r \in Requests : HandlerRespond(r)

SpecUploads == InitUploads /\ [][NextUploads]_vars

\* C37: two upload requests served at the same time do not interfere
\* through the uploads folder: the JD and the resume a task of a request
\* reads are the files that request stored.
C37_ReadsOwnFiles ==
  \A r \in Requests :
    \A x \in handlers[r].read : x.resume = r /\ x.jd = r

(***************************************************************************)
(* analyze_bulk_resumes: the Batch-API variant.  One call uploads the JD   *)
(* and the resumes, creates one batch job, polls it, reads the responses   *)
(* and deletes the uploads.                                                *)
(***************************************************************************)
MaxPolls == 2

CompletedStates ==
  {"JOB_STATE_SUCCEEDED", "JOB_STATE_FAILED", "JOB_STATE_CANCELLED", "JOB_STATE_EXPIRED"}
\* the states batch_job.state.name takes
JobStates == {"JOB_STATE_PENDING", "JOB_STATE_RUNNING"} \cup CompletedStates

\* datetime.now().isoformat() at the n-th reading of the clock
Isoformat(n) ==
  CASE n = 1 -> "i1"
    [] n = 2 -> "i2"
    [] OTHER -> "i3"

\* the locals of the call when it starts
NewBatch ==
  [pc |-> "start", exit |-> "", idx |-> 1, uploaded |-> <<>>, skipped |-> {},
   jd_db_file_id |-> 0, job_state |-> "", batch_job_id |-> 0, polls |-> 0, cause |-> ""]

\* everything analyze_bulk_resumes leaves alone
bulkFrame == <<jd_file_path, resume_file_paths, username, use_structured_output, max_workers,
               request, routePc, response, handlers, uploads, mainPc, mainIdx,
               done_callbacks, collected, lockVars, tstate, task, future, remoteCaches,
               stuckDocs, deleteCalls>>

\* upload_file_with_retry with a username: get_or_create_user, then save_file_record
BulkFileSaved(path, doc, k) ==
  LET user_data == store.data
      t == [doc |-> doc, resume_path |-> path, jd_file_path |-> path]
  IN [exists |-> TRUE,
      data |-> [user_data EXCEPT !.files = Append(@, FileRecord(user_data, t, k))]]

\* file_id as upload_file_with_retry returns it (None when there is no username)
BulkFileId == IF Truthy(username) THEN Len(store.data.files) + 1 ELSE 0

\* get_or_create_user, _validate_file_type(jd_path), the JD upload and its wait loop
BulkJdUploaded ==
  /\ batch.pc = "start"
  /\ SupportedFileType(jd_file_path)
  /\ batch' = [batch EXCEPT !.pc = "upload", !.jd_db_file_id = BulkFileId]
  /\ store' = IF Truthy(username) THEN BulkFileSaved(jd_file_path, "jd", 0) ELSE store
  /\ remoteFiles' = remoteFiles \cup {Handle(0, "jd")}
  /\ UNCHANGED <<bulkFrame, results, clock>>

\* the user lookup, the type check, the read, the upload or the wait loop raises:
\* nothing catches it
BulkJdRaise ==
  /\ batch.pc = "start"
  /\ batch' = [batch EXCEPT !.pc = "raised"]
  /\ \E created \in BOOLEAN :
       store' = IF created /\ Truthy(username) THEN [store EXCEPT !.exists = TRUE] ELSE store
  /\ \E kept \in BOOLEAN :
       remoteFiles' = IF kept /\ SupportedFileType(jd_file_path)
                      THEN remoteFiles \cup {Handle(0, "jd")} ELSE remoteFiles
  /\ UNCHANGED <<bulkFrame, results, clock>>

BulkResume == resume_file_paths[batch.idx]
InUploadLoop == batch.pc = "upload" /\ batch.idx <= Len(resume_file_paths)
UploadsDone == batch.pc = "upload" /\ batch.idx > Len(resume_file_paths)

\* uploaded_resumes[resume_path] = (uploaded, resume_db_file_id) on an insertion-ordered dict
SetUploadedResume(uploaded, path, file, id) ==
  IF \E n \in 1..Len(uploaded) : uploaded[n].path = path
  THEN [n \in 1..Len(uploaded) |->
          IF uploaded[n].path = path THEN [path |-> path, file |-> file, id |-> id]
          ELSE uploaded[n]]
  ELSE Append(uploaded, [path |-> path, file |-> file, id |-> id])

\* uploaded_resumes.keys()
UploadedPaths == {batch.uploaded[n].path : n \in 1..Len(batch.uploaded)}

\* _validate_file_type(path) or the read of the file raises: it is outside the try
BulkResumeRaise ==
  /\ InUploadLoop
  /\ batch' = [batch EXCEPT !.pc = "raised"]
  /\ UNCHANGED <<bulkFrame, results, clock, store, remoteFiles>>

\* one iteration of the upload loop that reaches uploaded_resumes[resume_path] = ...
BulkResumeUploaded ==
  /\ InUploadLoop
  /\ SupportedFileType(BulkResume)
  /\ batch' = [batch EXCEPT
                 !.idx = @ + 1,
                 !.uploaded = SetUploadedResume(@, BulkResume, Handle(batch.idx, "resume"), BulkFileId)]
  /\ store' = IF Truthy(username) THEN BulkFileSaved(BulkResume, "resume", batch.idx) ELSE store
  /\ remoteFiles' = remoteFiles \cup {Handle(batch.idx, "resume")}
  /\ UNCHANGED <<bulkFrame, results, clock>>

\* except Exception: continue.  The upload, the file record or the wait loop raised.
BulkResumeSkipped ==
  /\ InUploadLoop
  /\ SupportedFileType(BulkResume)
  /\ batch' = [batch EXCEPT !.idx = @ + 1, !.skipped = @ \cup {batch.idx}]
  /\ \E kept \in BOOLEAN : \E saved \in BOOLEAN :
       /\ saved => kept /\ Truthy(username)
       /\ remoteFiles' = IF kept THEN remoteFiles \cup {Handle(batch.idx, "resume")}
                         ELSE remoteFiles
       /\ store' = IF saved THEN BulkFileSaved(BulkResume, "resume", batch.idx) ELSE store
  /\ UNCHANGED <<bulkFrame, results, clock>>

\* an error map with an entry for every path of the call
ErrorEntriesForInputs(uploaded, text) ==
  [p \in {resume_file_paths[n] : n \in 1..Len(resume_file_paths)} |-> text]

\* {resume_path: message for resume_path in uploaded_resumes.keys()}
ErrorEntries(uploaded, text) ==
  [p \in {uploaded[n].path : n \in 1..Len(uploaded)} |-> text]

\* the record save_batch_job appends
BatchJobRecord(user_data, job_state, num_requests) ==
  [id |-> Len(user_data.batch_jobs) + 1,
   job_name |-> "batches/new",
   job_state |-> job_state,
   num_requests |-> num_requests,
   completed_at |-> "null"]

\* client.batches.create, then save_batch_job when there is a username
BulkJobCreated ==
  /\ UploadsDone
  /\ \E state \in JobStates :
       /\ batch' = [batch EXCEPT
                      !.pc = IF state \in CompletedStates THEN "final_update" ELSE "monitor",
                      !.job_state = state,
                      !.batch_job_id = IF Truthy(username)
                                       THEN Len(store.data.batch_jobs) + 1 ELSE 0]
       /\ store' = IF Truthy(username)
                   THEN [store EXCEPT !.data.batch_jobs =
                           Append(@, BatchJobRecord(store.data, state, Len(batch.uploaded)))]
                   ELSE store
  /\ UNCHANGED <<bulkFrame, results, clock, remoteFiles>>

\* batches.create or save_batch_job raises: the error map is returned at once
BulkJobCreateFailed ==
  /\ UploadsDone
  /\ batch' = [batch EXCEPT !.pc = "returned", !.exit = "create_error"]
  /\ results' = ErrorEntries(batch.uploaded,
                             Plain(<<"Batch processing error: ", "create failed">>))
  /\ UNCHANGED <<bulkFrame, clock, store, remoteFiles>>

\* an update that writes the state into every job of the user
UpdatedJobsAll(jobs, job_id, job_state, completed_at, now) ==
  [n \in 1..Len(jobs) |->
     [jobs[n] EXCEPT !.job_state = job_state,
                     !.completed_at = IF completed_at = "null" /\ job_state \in CompletedStates
                                      THEN now ELSE completed_at]]

\* the loop of update_batch_job_status: the first job with the id, then break
UpdatedJobs(jobs, job_id, job_state, completed_at, now) ==
  [n \in 1..Len(jobs) |->
     IF jobs[n].id = job_id /\ \A m \in 1..(n - 1) : jobs[m].id # job_id
     THEN [jobs[n] EXCEPT !.job_state = job_state,
                          !.completed_at = IF completed_at = "null" /\ job_state \in CompletedStates
                                           THEN now ELSE completed_at]
     ELSE jobs[n]]

\* update_batch_job_status(username, job_id, job_state, completed_at)
UpdateBatchJobStatus(job_id, job_state, completed_at, now) ==
  IF ~store.exists \/ store.data = EmptyUserData
  THEN store
  ELSE [store EXCEPT !.data.batch_jobs = UpdatedJobs(@, job_id, job_state, completed_at, now)]

\* if batch_job_id and username
HasJobRecord == batch.batch_job_id # 0 /\ Truthy(username)

\* the loop body up to time.sleep(30): the in-loop status update
BulkStatusUpdate ==
  /\ batch.pc = "monitor"
  /\ batch' = [batch EXCEPT !.pc = "poll"]
  /\ store' = IF HasJobRecord
              THEN UpdateBatchJobStatus(batch.batch_job_id, batch.job_state, "null",
                                        Isoformat(clock + 1))
              ELSE store
  /\ UNCHANGED <<bulkFrame, results, clock, remoteFiles>>

\* the in-loop status update raises
BulkStatusUpdateRaise ==
  /\ batch.pc = "monitor"
  /\ HasJobRecord
  /\ batch' = [batch EXCEPT !.pc = "monitor_error", !.cause = "update"]
  /\ UNCHANGED <<bulkFrame, results, clock, store, remoteFiles>>

\* batch_job = client.batches.get(name=batch_job.name) and the loop condition
BulkPoll ==
  /\ batch.pc = "poll"
  /\ \E state \in JobStates :
       /\ state \notin CompletedStates => batch.polls < MaxPolls
       /\ batch' = [batch EXCEPT
                      !.pc = IF state \in CompletedStates THEN "final_update" ELSE "monitor",
                      !.job_state = state,
                      !.polls = IF @ < MaxPolls THEN @ + 1 ELSE @]
  /\ UNCHANGED <<bulkFrame, results, clock, store, remoteFiles>>

\* client.batches.get raises
BulkPollRaise ==
  /\ batch.pc = "poll"
  /\ batch' = [batch EXCEPT !.pc = "monitor_error", !.cause = "poll"]
  /\ UNCHANGED <<bulkFrame, results, clock, store, remoteFiles>>

\* after the loop: the final status update with datetime.now().isoformat()
BulkFinalUpdate ==
  /\ batch.pc = "final_update"
  /\ batch' = [batch EXCEPT !.pc = "retrieve"]
  /\ IF HasJobRecord
     THEN /\ store' = UpdateBatchJobStatus(batch.batch_job_id, batch.job_state,
                                           Isoformat(clock + 1), Isoformat(clock + 1))
          /\ clock' = clock + 1
     ELSE UNCHANGED <<store, clock>>
  /\ UNCHANGED <<bulkFrame, results, remoteFiles>>

\* the final status update raises
BulkFinalUpdateRaise ==
  /\ batch.pc = "final_update"
  /\ HasJobRecord
  /\ batch' = [batch EXCEPT !.pc = "monitor_error", !.cause = "final_update"]
  /\ clock' = clock + 1
  /\ UNCHANGED <<bulkFrame, results, store, remoteFiles>>

\* except Exception of the monitoring block: JOB_STATE_ERROR, then the error map
BulkMonitorError ==
  /\ batch.pc = "monitor_error"
  /\ batch' = [batch EXCEPT !.pc = "returned", !.exit = "monitor_error"]
  /\ IF HasJobRecord
     THEN /\ store' = UpdateBatchJobStatus(batch.batch_job_id, "JOB_STATE_ERROR",
                                           Isoformat(clock + 1), Isoformat(clock + 1))
          /\ clock' = clock + 1
     ELSE UNCHANGED <<store, clock>>
  /\ results' = ErrorEntries(batch.uploaded,
                             Plain(<<"Batch job monitoring error: ", batch.cause>>))
  /\ UNCHANGED <<bulkFrame, remoteFiles>>

\* the status update inside the except block raises: the call raises
BulkMonitorErrorRaise ==
  /\ batch.pc = "monitor_error"
  /\ HasJobRecord
  /\ batch' = [batch EXCEPT !.pc = "raised"]
  /\ clock' = clock + 1
  /\ UNCHANGED <<bulkFrame, results, store, remoteFiles>>

\* error_message of the else branch, with ", Error: ..." when batch_job has an error
JobFailedMessage(state, has_error) ==
  IF has_error
  THEN Plain(<<"Batch job failed with state: ", state, ", Error: ", "job error">>)
  ELSE Plain(<<"Batch job failed with state: ", state>>)

\* the job ended in a state other than JOB_STATE_SUCCEEDED
BulkJobFailed ==
  /\ batch.pc = "retrieve"
  /\ batch.job_state # "JOB_STATE_SUCCEEDED"
  /\ batch' = [batch EXCEPT !.pc = "cleanup", !.exit = "job_failed"]
  /\ \E has_error \in BOOLEAN :
       results' = ErrorEntries(batch.uploaded, JobFailedMessage(batch.job_state, has_error))
  /\ UNCHANGED <<bulkFrame, clock, store, remoteFiles>>

\* what one inlined response leads to
StructuredOutcomes == {"none", "error", "json", "raw", "type_error", "save_error"}
FreeTextOutcomes == {"none", "error", "text", "save_error"}

\* if username and user_id and jd_db_file_id and resume_db_file_id
BulkCanSave(u) == Truthy(username) /\ batch.jd_db_file_id # 0 /\ u.id # 0

\* save_cache_record, then save_analysis_result, of one response
BulkSaved(user_data, u, k, result_json) ==
  LET t == [cache |-> "batch_analysis_" \o ToString(k - 1),
            cache_id |-> Len(user_data.caches) + 1,
            jd_db_file_id |-> batch.jd_db_file_id,
            resume_db_file_id |-> u.id,
            result_json |-> result_json]
      with_cache == [user_data EXCEPT !.caches = Append(@, CacheRecord(user_data, t))]
  IN [with_cache EXCEPT !.analysis_results = Append(@, AnalysisRecord(with_cache, t))]

\* for resume_path in uploaded_resumes.keys(): if resume_path not in results
FillMissing(res, text) ==
  [p \in DOMAIN res \cup UploadedPaths |-> IF p \in DOMAIN res THEN res[p] ELSE text]

RetrievalError == Plain(<<"Error retrieving result: ", "retrieval failed">>)

\* the loop over batch_job.dest.inlined_responses from response k on
RECURSIVE Retrieved(_, _, _, _, _)
Retrieved(k, res, user_data, now, outs) ==
  IF k > Len(batch.uploaded)
  THEN [results |-> res, data |-> user_data, clock |-> now]
  ELSE
    LET u == batch.uploaded[k]
        o == outs[k]
        result_json == JsonDumps(InjectTimestamp(JsonLoads(RespScored).dict, Timestamp(now + 1)))
        text_json == JsonDumps(<<Member("text_result", "free text")>>)
    IN CASE o = "none" -> Retrieved(k + 1, res, user_data, now, outs)
         [] o = "error" ->
              Retrieved(k + 1, Put(res, u.path, ErrorString("response error")), user_data, now, outs)
         [] o = "raw" -> Retrieved(k + 1, Put(res, u.path, RespNotJson), user_data, now, outs)
         [] o = "type_error" ->
              [results |-> FillMissing(res, RetrievalError), data |-> user_data, clock |-> now + 1]
         [] o = "json" ->
              Retrieved(k + 1, Put(res, u.path, result_json),
                        IF BulkCanSave(u) THEN BulkSaved(user_data, u, k, result_json)
                        ELSE user_data,
                        now + 1, outs)
         [] o = "text" ->
              Retrieved(k + 1, Put(res, u.path, Plain(<<"free text">>)),
                        IF BulkCanSave(u) THEN BulkSaved(user_data, u, k, text_json)
                        ELSE user_data,
                        now, outs)
         [] OTHER ->
              \* save_cache_record raises after results[resume_path] was set
              IF use_structured_output
              THEN [results |-> FillMissing(Put(res, u.path, result_json), RetrievalError),
                    data |-> user_data, clock |-> now + 1]
              ELSE [results |-> FillMissing(Put(res, u.path, Plain(<<"free text">>)),
                                            RetrievalError),
                    data |-> user_data, clock |-> now]

\* the job succeeded: the responses are read in the order of uploaded_resumes
BulkRetrieve ==
  /\ batch.pc = "retrieve"
  /\ batch.job_state = "JOB_STATE_SUCCEEDED"
  /\ batch' = [batch EXCEPT !.pc = "cleanup", !.exit = "retrieved"]
  /\ \E outs \in [1..Len(batch.uploaded) ->
                    IF use_structured_output THEN StructuredOutcomes ELSE FreeTextOutcomes] :
       /\ \A k \in 1..Len(batch.uploaded) :
            outs[k] = "save_error" => BulkCanSave(batch.uploaded[k])
       /\ LET r == Retrieved(1, << >>, store.data, clock, outs)
          IN /\ results' = r.results
             /\ store' = [store EXCEPT !.data = r.data]
             /\ clock' = r.clock
  /\ UNCHANGED <<bulkFrame, remoteFiles>>

\* the documents the cleanup block deletes, in its order
CleanupOrder ==
  <<Handle(0, "jd")>> \o [n \in 1..Len(batch.uploaded) |-> batch.uploaded[n].file]

\* one try around every delete: the first delete that raises ends the cleanup
BulkCleanup ==
  /\ batch.pc = "cleanup"
  /\ batch' = [batch EXCEPT !.pc = "returned"]
  /\ \E n \in 0..Len(CleanupOrder) :
       remoteFiles' = remoteFiles \ {CleanupOrder[m] : m \in 1..n}
  /\ UNCHANGED <<bulkFrame, results, clock, store>>

\* a job of an earlier call, finished
EarlierJob ==
  [id |-> 1, job_name |-> "batches/old", job_state |-> "JOB_STATE_SUCCEEDED",
   num_requests |-> 1, completed_at |-> "i0"]

InitBulk ==
  /\ jd_file_path \in JdPaths
  /\ resume_file_paths \in UNION {[1..n -> ResumePaths] : n \in 0..MaxResumes}
  /\ username \in {NoneVal, "u1"}
  /\ use_structured_output \in BOOLEAN
  /\ max_workers = DefaultMaxWorkers
  /\ mainPc = "idle"
  /\ mainIdx = 1
  /\ done_callbacks = {}
  /\ collected = {}
  /\ results = << >>
  /\ completed_count = 0
  /\ progress_lock = NoThread
  /\ loaded = [th \in {MainThread} |-> 0]
  /\ tstate = << >>
  /\ task = << >>
  /\ future = << >>
  /\ remoteFiles = {}
  /\ remoteCaches = {}
  /\ stuckDocs = {}
  /\ store \in {[exists |-> FALSE, data |-> EmptyUserData],
                [exists |-> TRUE,
                 data |-> [EmptyUserData EXCEPT !.batch_jobs = <<EarlierJob>>]]}
  /\ deleteCalls = << >>
  /\ clock = 0
  /\ request = NoRequest
  /\ routePc = "direct"
  /\ response = <<>>
  /\ handlers = << >>
  /\ uploads = << >>
  /\ batch = NewBatch

NextBulk ==
  \/ BulkJdUploaded
  \/ BulkJdRaise
  \/ BulkResumeRaise
  \/ BulkResumeUploaded
  \/ BulkResumeSkipped
  \/ BulkJobCreated
  \/ BulkJobCreateFailed
  \/ BulkStatusUpdate
  \/ BulkStatusUpdateRaise
  \/ BulkPoll
  \/ BulkPollRaise
  \/ BulkFinalUpdate
  \/ BulkFinalUpdateRaise
  \/ BulkMonitorError
  \/ BulkMonitorErrorRaise
  \/ BulkJobFailed
  \/ BulkRetrieve
  \/ BulkCleanup

SpecBulk == InitBulk /\ [][NextBulk]_vars

\* the call has returned its map
BulkReturned == batch.pc = "returned"
\* the elements of resume_file_paths whose upload succeeded, and their paths
UploadedElements == {k \in 1..(batch.idx - 1) : k \notin batch.skipped}
PathsUploaded == {resume_file_paths[k] : k \in UploadedElements}
\* the returns that report one failure for the whole batch
ErrorExits == {"create_error", "monitor_error", "job_failed"}

\* the message each of these returns writes
IsExitMessage(exit, value) ==
  /\ value.kind = "plain"
  /\ Len(value.body) >= 2
  /\ value.body[1] = CASE exit = "create_error" -> "Batch processing error: "
                       [] exit = "monitor_error" -> "Batch job monitoring error: "
                       [] OTHER -> "Batch job failed with state: "
  /\ exit = "job_failed" =>
       value.body[2] \in CompletedStates \ {"JOB_STATE_SUCCEEDED"}

\* on the three failure returns the map has one error message for every
\* path that was uploaded and nothing else
C38_ErrorMapOfUploaded ==
  (BulkReturned /\ batch.exit \in ErrorExits) =>
     /\ DOMAIN results = PathsUploaded
     /\ \A p \in DOMAIN results : IsExitMessage(batch.exit, results[p])

\* C38 as stated: in the Batch-API variant a resume whose upload failed has
\* no entry in the returned map, and when job creation fails, monitoring
\* fails or the job ends in a terminal state other than JOB_STATE_SUCCEEDED
\* the map has exactly one error-message entry for each uploaded resume and
\* none for any other path.
C38_FailedUploadHasNoEntry ==
  /\ BulkReturned => \A k \in batch.skipped : resume_file_paths[k] \notin DOMAIN results
  /\ C38_ErrorMapOfUploaded

\* C38: in the Batch-API variant every key of the returned map is a path
\* that some element of the input was uploaded under, so a resume whose
\* upload failed has no entry unless another element with the same path was
\* uploaded; when job creation fails, monitoring fails or the job ends in a
\* terminal state other than JOB_STATE_SUCCEEDED the map has exactly one
\* error-message entry for each uploaded path and none for any other path.
C38_EntriesAreUploadedPaths ==
  /\ BulkReturned =>
       /\ DOMAIN results \subseteq PathsUploaded
       /\ \A k \in batch.skipped :
            resume_file_paths[k] \notin PathsUploaded =>
              resume_file_paths[k] \notin DOMAIN results
  /\ C38_ErrorMapOfUploaded

\* a failure return of a batch with one resume uploaded and one skipped,
\* of different paths
C38_ErrorMapWithSkipped ==
  /\ BulkReturned
  /\ batch.exit \in ErrorExits
  /\ \E k \in batch.skipped : resume_file_paths[k] \notin PathsUploaded
  /\ PathsUploaded # {}
  /\ DOMAIN results = PathsUploaded

\* the call is inside `while batch_job.state.name not in completed_states`
InMonitorLoop == batch.pc \in {"monitor", "poll"}
\* this step leaves the loop
LeavesMonitorLoop == InMonitorLoop /\ batch'.pc \notin {"monitor", "poll"}
\* this step is the status update of one loop iteration
InLoopUpdate == batch.pc = "monitor" /\ batch'.pc = "poll"

\* the records of the user's batch_jobs list with the id save_batch_job returned
SavedJobs(st) ==
  {n \in 1..Len(st.data.batch_jobs) : st.data.batch_jobs[n].id = batch.batch_job_id}

\* a returned call that saved a job record left it final: the terminal
\* state, or JOB_STATE_ERROR after a monitoring exception, and a completed_at
C39_RecordFinal ==
  (BulkReturned /\ batch.batch_job_id # 0) =>
     /\ SavedJobs(store) # {}
     /\ \A n \in SavedJobs(store) :
          /\ store.data.batch_jobs[n].completed_at # "null"
          /\ IF batch.exit = "monitor_error"
             THEN store.data.batch_jobs[n].job_state = "JOB_STATE_ERROR"
             ELSE /\ store.data.batch_jobs[n].job_state = batch.job_state
                  /\ batch.job_state \in CompletedStates

\* an in-loop status update writes the polled state into the job with the
\* matching id, leaves its completed_at null and changes nothing else
C39_UpdateStep ==
  (InLoopUpdate /\ batch.batch_job_id # 0) =>
     /\ store'.exists = store.exists
     /\ store'.data.files = store.data.files
     /\ store'.data.caches = store.data.caches
     /\ store'.data.analysis_results = store.data.analysis_results
     /\ Len(store'.data.batch_jobs) = Len(store.data.batch_jobs)
     /\ \A n \in 1..Len(store.data.batch_jobs) :
          IF n \in SavedJobs(store)
          THEN /\ store'.data.batch_jobs[n].completed_at = "null"
               /\ store'.data.batch_jobs[n].job_state = batch.job_state
               /\ batch.job_state \notin CompletedStates
          ELSE store'.data.batch_jobs[n] = store.data.batch_jobs[n]

\* the loop is left on a terminal state or on a raising poll only
C39_LeftOnStateOrPoll ==
  LeavesMonitorLoop =>
     \/ batch'.job_state \in CompletedStates /\ batch'.pc = "final_update"
     \/ batch'.pc = "monitor_error" /\ batch'.cause = "poll"

\* the loop is left on a terminal state, on a raising poll or on a raising
\* status update
C39_LeftOnStateOrRaise ==
  LeavesMonitorLoop =>
     \/ batch'.job_state \in CompletedStates /\ batch'.pc = "final_update"
     \/ batch'.pc = "monitor_error" /\ batch'.cause \in {"poll", "update"}

\* C39 as stated: the monitoring loop of analyze_bulk_resumes ends only when
\* the job state is SUCCEEDED, FAILED, CANCELLED or EXPIRED or when polling
\* raises; a saved job record of a returned call holds the final terminal
\* state (JOB_STATE_ERROR after a monitoring exception) and a non-null
\* completed_at; every earlier status update leaves completed_at null and
\* changes no other record.
C39_LoopEndsOnStateOrPoll ==
  /\ []C39_RecordFinal
  /\ [][C39_LeftOnStateOrPoll /\ C39_UpdateStep]_vars

\* C39: the monitoring loop of analyze_bulk_resumes ends only when the job
\* state is SUCCEEDED, FAILED, CANCELLED or EXPIRED, when polling raises or
\* when the status update inside the loop raises; a saved job record of a
\* returned call holds the final terminal state (JOB_STATE_ERROR after a
\* monitoring exception) and a non-null completed_at; every earlier status
\* update leaves completed_at null and changes no record other than the job
\* with the matching id.
C39_JobRecordFollowsMonitoring ==
  /\ []C39_RecordFinal
  /\ [][C39_LeftOnStateOrRaise /\ C39_UpdateStep]_vars

\* a call that polled, whose in-loop status update then raised, and that
\* returned with its job record at JOB_STATE_ERROR next to an earlier job
C39_ReturnedAfterUpdateRaised ==
  /\ BulkReturned
  /\ batch.cause = "update"
  /\ batch.polls >= 1
  /\ batch.batch_job_id = 2
  /\ store.data.batch_jobs[1] = EarlierJob
  /\ store.data.batch_jobs[2].job_state = "JOB_STATE_ERROR"
  /\ store.data.batch_jobs[2].completed_at # "null"

====
